---- MODULE Spec2Model ----
(***************************************************************************)
(* The three MCP servers of the repository (servers/code_server.py,        *)
(* servers/database_server.py, servers/document_server.py) as one state    *)
(* machine.  A behaviour describes ONE server process: Init chooses which  *)
(* server it is, the server's main() runs its start-up work, and then the  *)
(* registered handlers (list_resources, read_resource, list_tools and one  *)
(* branch of call_tool per tool) are invoked one at a time.                *)
(*                                                                         *)
(* A Python str is a sequence of one-character strings, so that prefixes,  *)
(* case conversion, newline translation and substring counting are         *)
(* computed and not assumed.  A Python value is a tagged record.           *)
(***************************************************************************)
EXTENDS Integers, Sequences, FiniteSets, TLC

VARIABLES
    server,          \* which of the three server processes this is
    phase,           \* "startup" before main() has entered app.run, then "serving"
    code_store,      \* code server: snippet name -> code
    files,           \* code server: the files on disk, path -> text as stored
    running,         \* code server: spawned subprocesses that are still alive
    docs,            \* document server: documents/<name>.txt, name -> text as stored
    document_index,  \* document server: name -> lowercased text
    db,              \* database server: the content of example.db
    conns,           \* database server: connections opened and not yet closed
    last \* the most recent handler invocation and its outcome

vars == <<server, phase, code_store, files, running, docs, document_index, db, conns, last>>

codeVars == <<code_store, files, running>>
docVars  == <<docs, document_index>>
dbVars   == <<db, conns>>
domainVars == <<code_store, files, running, docs, document_index, db>>

-----------------------------------------------------------------------------
(* Bounds of the model                                                     *)

\* longest document text that append_to_document is allowed to build
MaxLen == 4

-----------------------------------------------------------------------------
(* Python values                                                           *)

None == [t |-> "none"]
Str(s) == [t |-> "str", v |-> s]
Num(i) == [t |-> "int", v |-> i]
\* a JSON array
Lst(l) == [t |-> "list", v |-> l]

\* `not x`
Falsy(x) ==
    \/ x.t = "none"
    \/ x.t = "str" /\ x.v = <<>>
    \/ x.t = "int" /\ x.v = 0
    \/ x.t = "list" /\ x.v = <<>>

\* arguments.get(key)
Get(arguments, key) == IF key \in DOMAIN arguments THEN arguments[key] ELSE None

\* the empty dict
EmptyMap == [k \in {} |-> None]

\* d[k] = v on a dict
Put(d, k, v) == [x \in DOMAIN d \cup {k} |-> IF x = k THEN v ELSE d[x]]

\* d.pop(k, None) / unlink
Drop(d, k) == [x \in DOMAIN d \ {k} |-> d[x]]

\* A dict whose iteration order is observable (code_store) is the sequence of
\* its items in insertion order
DictKeys(d) == [i \in 1..Len(d) |-> d[i].k]
DictHas(d, k) == \E i \in 1..Len(d) : d[i].k = k
DictGet(d, k) == d[CHOOSE i \in 1..Len(d) : d[i].k = k].v
\* d[k] = v: an existing key keeps its position
DictPut(d, k, v) ==
    IF DictHas(d, k)
    THEN [i \in 1..Len(d) |-> IF d[i].k = k THEN [k |-> k, v |-> v] ELSE d[i]]
    ELSE Append(d, [k |-> k, v |-> v])

\* all argument maps over some of the keys, key k taking its values in dom[k]
ArgMaps(dom) ==
    UNION { { f \in [S -> UNION {dom[k] : k \in S}] : \A k \in S : f[k] \in dom[k] }
            : S \in SUBSET DOMAIN dom }

-----------------------------------------------------------------------------
(* Outcomes of a handler                                                   *)

\* return [TextContent(type="text", text=...)]: head is the literal text the
\* f-string starts with, split at spaces; data is what is interpolated after it
Content(head, data) == [kind |-> "content", head |-> head, data |-> data]

\* raise ValueError(...)
Raise(head, data) == [kind |-> "raise", head |-> head, data |-> data]

\* a handler that returns something that is not a list of content blocks
Value(data) == [kind |-> "value", head |-> <<>>, data |-> data]

\* sql: the statements the invocation passed to cursor.execute, in order
NoCall == [op |-> "none", name |-> "", arguments |-> EmptyMap, res |-> Value(<<>>),
           sql |-> <<>>]

\* op: the handler ("call_tool", "read_resource", "list_resources", "list_tools"),
\* name: the tool name given to call_tool
Reply(op, name, arguments, res, sql) ==
    last' = [op |-> op, name |-> name, arguments |-> arguments, res |-> res, sql |-> sql]

-----------------------------------------------------------------------------
(* Text                                                                    *)

StartsWith(s, p) == Len(s) >= Len(p) /\ SubSeq(s, 1, Len(p)) = p

\* os.linesep on the platform the servers are run on (POSIX)
LineSep == <<"\n">>

\* the characters of the model in code point order
Chars == <<"\t", "\n", "\r", " ", "!", "'", "(", ")", "*", ",", "-", ".", "/",
         "0", "1", "2", "3", "4", "5", "6", "7", "8", "9", ":", "=", "?", "@",
         "A", "B", "C", "D", "E", "F", "G", "H", "I", "J", "K", "L", "M", "N",
         "O", "P", "Q", "R", "S", "T", "U", "V", "W", "X", "Y", "Z", "[", "]",
         "_", "a", "b", "c", "d", "e", "f", "g", "h", "i", "j", "k", "l", "m",
         "n", "o", "p", "q", "r", "s", "t", "u", "v", "w", "x", "y", "z">>

CharSet == {Chars[i] : i \in 1..Len(Chars)}

\* ord(c), up to the order it gives
OrdOf == [c \in CharSet |-> CHOOSE i \in 1..Len(Chars) : Chars[i] = c]
Ord(c) == OrdOf[c]

UpperCase == <<"A", "B", "C", "D", "E", "F", "G", "H", "I", "J", "K", "L", "M", "N",
             "O", "P", "Q", "R", "S", "T", "U", "V", "W", "X", "Y", "Z">>
LowerCase == <<"a", "b", "c", "d", "e", "f", "g", "h", "i", "j", "k", "l", "m", "n",
             "o", "p", "q", "r", "s", "t", "u", "v", "w", "x", "y", "z">>

LowerOf ==
    [c \in CharSet |->
        IF \E j \in 1..Len(UpperCase) : UpperCase[j] = c
        THEN LowerCase[CHOOSE j \in 1..Len(UpperCase) : UpperCase[j] = c]
        ELSE c]

UpperOf ==
    [c \in CharSet |->
        IF \E j \in 1..Len(LowerCase) : LowerCase[j] = c
        THEN UpperCase[CHOOSE j \in 1..Len(LowerCase) : LowerCase[j] = c]
        ELSE c]

\* str.lower()
Lower(s) == [i \in 1..Len(s) |-> LowerOf[s[i]]]

\* str.upper()
Upper(s) == [i \in 1..Len(s) |-> UpperOf[s[i]]]

Whitespace == {" ", "\n", "\r", "\t"}

RECURSIVE LStrip(_)
LStrip(s) == IF s # <<>> /\ s[1] \in Whitespace THEN LStrip(Tail(s)) ELSE s

RECURSIVE RStrip(_)
RStrip(s) ==
    IF s # <<>> /\ s[Len(s)] \in Whitespace THEN RStrip(SubSeq(s, 1, Len(s) - 1)) ELSE s

\* str.strip()
Strip(s) == RStrip(LStrip(s))

\* q in s
Contains(s, q) == \E i \in 1..(Len(s) - Len(q) + 1) : SubSeq(s, i, i + Len(q) - 1) = q

RECURSIVE Count(_, _)
\* s.count(q), q not empty: occurrences that do not overlap, found left to right
Count(s, q) ==
    IF Len(s) < Len(q) THEN 0
    ELSE IF SubSeq(s, 1, Len(q)) = q
         THEN 1 + Count(SubSeq(s, Len(q) + 1, Len(s)), q)
         ELSE Count(Tail(s), q)

RECURSIVE StrLess(_, _)
\* s < t on str
StrLess(s, t) ==
    IF t = <<>> THEN FALSE
    ELSE IF s = <<>> THEN TRUE
    ELSE IF s[1] = t[1] THEN StrLess(Tail(s), Tail(t))
    ELSE Ord(s[1]) < Ord(t[1])

RECURSIVE SortedNames(_)
\* sorted(S) for a set of str
SortedNames(S) ==
    IF S = {} THEN <<>>
    ELSE LET m == CHOOSE x \in S : \A y \in S \ {x} : StrLess(x, y)
         IN <<m>> \o SortedNames(S \ {m})

RECURSIVE WriteText(_)
\* Path.write_text(s): text mode, newline=None, every "\n" is written as os.linesep
WriteText(s) ==
    IF s = <<>> THEN <<>>
    ELSE (IF s[1] = "\n" THEN LineSep ELSE <<s[1]>>) \o WriteText(Tail(s))

RECURSIVE ReadText(_)
\* Path.read_text(): text mode, newline=None, universal newlines: "\r\n" and a
\* lone "\r" are both read as "\n"
ReadText(s) ==
    IF s = <<>> THEN <<>>
    ELSE IF s[1] = "\r"
         THEN <<"\n">> \o ReadText(IF Len(s) >= 2 /\ s[2] = "\n"
                                   THEN SubSeq(s, 3, Len(s)) ELSE Tail(s))
         ELSE <<s[1]>> \o ReadText(Tail(s))

-----------------------------------------------------------------------------
(* servers/code_server.py                                                  *)

\* file paths a client sends; the empty str is a path too
PathP == <<"p">>
PathD == <<"d">>
Paths == {PathP, PathD}

\* paths that name a directory: Path.exists() holds, reading and writing raise
Dirs == {PathD}

\* texts a client sends as file content, snippet code and document content
TextHi   == <<"H", "i">>
TextCr   == <<"a", "\r", "b">>
TextCrLf == <<"\r", "\n">>
Texts == {<<>>, TextHi, TextCr, TextCrLf}

\* snippet names a client sends
NameA == <<"a">>
NameUpperA == <<"A">>
SnippetNames == {<<>>, NameA, NameUpperA}
SnippetCodes == {<<>>, TextHi, TextCr}

\* what the disk may hold when the code server is started
InitialFiles == {EmptyMap, [p \in {PathP} |-> TextCrLf]}

\* Path(file_path).exists()
PathExists(p) == p \in Dirs \/ p \in DOMAIN files

\* call_tool, name == "read_file"
read_file(arguments) ==
    LET file_path == Get(arguments, "file_path") IN
    IF Falsy(file_path)
    THEN Raise(<<"file_path", "is", "required">>, <<>>)
    ELSE IF ~PathExists(file_path.v)
    THEN Content(<<"Error:", "File", "not", "found:">>, [file_path |-> file_path.v])
    ELSE IF file_path.v \in Dirs
    THEN Content(<<"Error", "reading", "file:">>, [e |-> "IsADirectoryError"])
    ELSE Content(<<"File", "contents", "of">>,
                 [file_path |-> file_path.v, content |-> ReadText(files[file_path.v])])

\* write_file with `if not file_path:` as its only check: a null content reaches
\* Path.write_text, whose TypeError is reported in-band
write_file_NoContentCheck(arguments) ==
    LET file_path == Get(arguments, "file_path")
        content == Get(arguments, "content")
    IN
    IF Falsy(file_path)
    THEN [res |-> Raise(<<"file_path", "and", "content", "are", "required">>, <<>>),
          files |-> files]
    ELSE IF file_path.v \in Dirs
    THEN [res |-> Content(<<"Error", "writing", "file:">>, [e |-> "IsADirectoryError"]),
          files |-> files]
    ELSE IF content = None
    THEN [res |-> Content(<<"Error", "writing", "file:">>, [e |-> "TypeError"]),
          files |-> Put(files, file_path.v, <<>>)]
    ELSE [res |-> Content(<<"Successfully", "wrote">>,
                          [len |-> Len(content.v), file_path |-> file_path.v]),
          files |-> Put(files, file_path.v, WriteText(content.v))]

\* call_tool, name == "write_file": the outcome and the files after it
write_file(arguments) ==
    LET file_path == Get(arguments, "file_path")
        content == Get(arguments, "content")
    IN
    IF Falsy(file_path) \/ content = None
    THEN [res |-> Raise(<<"file_path", "and", "content", "are", "required">>, <<>>),
          files |-> files]
    ELSE IF file_path.v \in Dirs
    THEN [res |-> Content(<<"Error", "writing", "file:">>, [e |-> "IsADirectoryError"]),
          files |-> files]
    ELSE [res |-> Content(<<"Successfully", "wrote">>,
                          [len |-> Len(content.v), file_path |-> file_path.v]),
          files |-> Put(files, file_path.v, WriteText(content.v))]

\* save_code_snippet with code_store.setdefault(name, code): the first save wins
save_code_snippet_FirstWins(arguments) ==
    LET name == Get(arguments, "name")
        code == Get(arguments, "code")
    IN
    IF Falsy(name) \/ Falsy(code)
    THEN [res |-> Raise(<<"name", "and", "code", "are", "required">>, <<>>),
          code_store |-> code_store]
    ELSE [res |-> Content(<<"Code", "snippet">>, [name |-> name.v]),
          code_store |-> IF DictHas(code_store, name.v) THEN code_store
                         ELSE DictPut(code_store, name.v, code.v)]

\* call_tool, name == "save_code_snippet": the outcome and the store after it
save_code_snippet(arguments) ==
    LET name == Get(arguments, "name")
        code == Get(arguments, "code")
    IN
    IF Falsy(name) \/ Falsy(code)
    THEN [res |-> Raise(<<"name", "and", "code", "are", "required">>, <<>>),
          code_store |-> code_store]
    ELSE [res |-> Content(<<"Code", "snippet">>, [name |-> name.v]),
          code_store |-> DictPut(code_store, name.v, code.v)]

\* call_tool, name == "list_code_snippets"
list_code_snippets ==
    IF code_store = <<>>
    THEN Content(<<"No", "code", "snippets", "saved", "yet">>, <<>>)
    ELSE Content(<<"Saved", "code", "snippets:">>, [names |-> DictKeys(code_store)])

\* the final else branch reporting the unknown name in-band
unknown_tool_InBand(name) == Content(<<"Error:", "Unknown", "tool:">>, [name |-> name])

\* call_tool, the final else branch
unknown_tool(name) == Raise(<<"Unknown", "tool:">>, [name |-> name])

\* timeout=10 of subprocess.run
Timeout == 10

\* code a client sends to execute_code, one statement per element
ProgOk      == <<"print('hi')">>
ProgFail    == <<"import sys", "sys.stderr.write('w')", "sys.exit(3)">>
ProgWarn    == <<"import sys", "sys.stderr.write('w')">>
ProgBusy10  == <<"import time", "time.sleep(9.99)">>
ProgSleep15 == <<"import time", "time.sleep(15)">>
ProgCr      == <<"import sys", "sys.stdout.write('a\\rb')">>
ProgBytes   == <<"import sys", "sys.stdout.buffer.write(b'\\xff')">>
Programs == {<<>>, ProgOk, ProgFail, ProgWarn, ProgBusy10, ProgSleep15, ProgCr, ProgBytes}

\* a byte that is not UTF-8
ByteFF == "0xFF"

\* what the interpreter does with the code: wall-clock time until it exits on
\* its own, the bytes it writes, its exit code
Behaviour(code) ==
    CASE code = ProgOk      -> [dur |-> 1,  stdout |-> <<"h", "i", "\n">>, stderr |-> <<>>, returncode |-> 0]
      [] code = ProgFail    -> [dur |-> 1,  stdout |-> <<>>, stderr |-> <<"w">>, returncode |-> 3]
      [] code = ProgWarn    -> [dur |-> 1,  stdout |-> <<>>, stderr |-> <<"w">>, returncode |-> 0]
      [] code = ProgBusy10  -> [dur |-> 10, stdout |-> <<>>, stderr |-> <<>>, returncode |-> 0]
      [] code = ProgSleep15 -> [dur |-> 15, stdout |-> <<>>, stderr |-> <<>>, returncode |-> 0]
      [] code = ProgCr      -> [dur |-> 1,  stdout |-> <<"a", "\r", "b">>, stderr |-> <<>>, returncode |-> 0]
      [] code = ProgBytes   -> [dur |-> 1,  stdout |-> <<ByteFF>>, stderr |-> <<>>, returncode |-> 0]

\* text=True: the captured bytes cannot be decoded as UTF-8
Undecodable(bytes) == \E i \in 1..Len(bytes) : bytes[i] = ByteFF

\* a wait with a timeout that leaves the child running when it expires
\* (Popen + communicate(timeout=...) without the kill)
SubprocessRun_NoKill(code, timeout, late) ==
    LET b == Behaviour(code)
        expired == b.dur > timeout \/ (b.dur = timeout /\ late)
    IN
    IF expired
    THEN [exc |-> "TimeoutExpired", alive |-> TRUE]
    ELSE IF Undecodable(b.stdout) \/ Undecodable(b.stderr)
    THEN [exc |-> "UnicodeDecodeError", alive |-> FALSE]
    ELSE [exc |-> "", alive |-> FALSE,
          stdout |-> ReadText(b.stdout), stderr |-> ReadText(b.stderr),
          returncode |-> b.returncode]

\* subprocess.run([sys.executable, "-c", code], capture_output=True, text=True,
\* timeout=timeout): the child is spawned and waited for; when the wait times out
\* run() kills the child and reaps it before it re-raises TimeoutExpired.  A
\* child that needs exactly the limit may land on either side (late).  text=True
\* decodes what was captured as UTF-8 with universal newlines.
SubprocessRun(code, timeout, late) ==
    LET b == Behaviour(code)
        expired == b.dur > timeout \/ (b.dur = timeout /\ late)
    IN
    IF expired
    THEN [exc |-> "TimeoutExpired", alive |-> FALSE]
    ELSE IF Undecodable(b.stdout) \/ Undecodable(b.stderr)
    THEN [exc |-> "UnicodeDecodeError", alive |-> FALSE]
    ELSE [exc |-> "", alive |-> FALSE,
          stdout |-> ReadText(b.stdout), stderr |-> ReadText(b.stderr),
          returncode |-> b.returncode]

\* call_tool, name == "execute_code": the outcome and the processes left running
execute_code(arguments, late) ==
    LET code == Get(arguments, "code") IN
    IF Falsy(code)
    THEN [res |-> Raise(<<"code", "is", "required">>, <<>>), running |-> running]
    ELSE
    LET result == SubprocessRun(code.v, Timeout, late)
        left == IF result.alive THEN running \cup {code.v} ELSE running
    IN
    IF result.exc = "TimeoutExpired"
    THEN [res |-> Content(<<"Error:", "Code", "execution", "timed", "out">>, <<>>),
          running |-> left]
    ELSE IF result.exc # ""
    THEN [res |-> Content(<<"Error", "executing", "code:">>, [e |-> result.exc]),
          running |-> left]
    ELSE
    LET output1 == IF result.stderr # <<>>
                   THEN result.stdout \o <<"\n[stderr]\n">> \o result.stderr
                   ELSE result.stdout
        output2 == IF result.returncode # 0
                   THEN <<"[Error - exit code ", ToString(result.returncode), "]\n">> \o output1
                   ELSE output1
    IN [res |-> Content(<<"Execution", "result:">>, [output |-> output2]),
        running |-> left]

\* "code://"
CodeScheme == <<"c", "o", "d", "e", ":", "/", "/">>

\* list_resources that answers with the listing computed when the server started,
\* when the store was empty
code_list_resources_Cached == <<>>

\* list_resources of the code server: the uris, in the order of the list
code_list_resources == [i \in 1..Len(code_store) |-> CodeScheme \o code_store[i].k]

\* read_resource that looks the name up without regard to case
code_read_resource_AnyCase(uri) ==
    LET hits == SelectSeq(code_store,
                          LAMBDA e : Lower(e.k) = Lower(SubSeq(uri, 8, Len(uri))))
    IN IF StartsWith(uri, CodeScheme) /\ hits # <<>>
       THEN Value(hits[1].v)
       ELSE Raise(<<"Resource", "not", "found:">>, [uri |-> uri])

\* read_resource of the code server
code_read_resource(uri) ==
    IF StartsWith(uri, CodeScheme) /\ DictHas(code_store, SubSeq(uri, 8, Len(uri)))
    THEN Value(DictGet(code_store, SubSeq(uri, 8, Len(uri))))
    ELSE Raise(<<"Resource", "not", "found:">>, [uri |-> uri])

\* a catalog that offers list_code_snippets only once a snippet is stored
code_list_tools_Dynamic ==
    << [name |-> "read_file",          required |-> {"file_path"}],
       [name |-> "write_file",         required |-> {"file_path", "content"}],
       [name |-> "execute_code",       required |-> {"code"}],
       [name |-> "save_code_snippet",  required |-> {"name", "code"}] >>
    \o (IF code_store = <<>> THEN <<>>
        ELSE << [name |-> "list_code_snippets", required |-> {}] >>)

\* [required keys of each tool of list_tools, in declaration order]
code_list_tools ==
    << [name |-> "read_file",          required |-> {"file_path"}],
       [name |-> "write_file",         required |-> {"file_path", "content"}],
       [name |-> "execute_code",       required |-> {"code"}],
       [name |-> "save_code_snippet",  required |-> {"name", "code"}],
       [name |-> "list_code_snippets", required |-> {}] >>

-----------------------------------------------------------------------------
(* servers/document_server.py                                              *)

\* document names a client sends that are plain file names
NameB == <<"b">>
DocNames == {NameA, NameB}

\* a name a client sends that denotes the file of document a by another path
NameDotA == <<".", "/", "a">>

\* texts a client sends as document content
DocAa == <<"a", "A">>
DocB  == <<"b">>
DocCr == <<"\r">>
DocTexts == {DocAa, DocB, DocCr}

\* texts a client searches for
Queries == {<<"a">>, <<"A", "a">>, <<"B">>, <<"\n">>, <<"\r">>}

\* what the documents directory may hold when the server is started
InitialDirs == {EmptyMap, [n \in {NameA} |-> <<"B", "\r">>]}

\* DOCUMENTS_DIR.glob("*.txt"), the stems
Glob == DOMAIN docs

RECURSIVE doc_path(_)
\* DOCUMENTS_DIR / f"{doc_name}.txt": the stem of the file the path denotes; a
\* leading "./" of the name is no component of the path
doc_path(doc_name) ==
    IF Len(doc_name) > 2 /\ SubSeq(doc_name, 1, 2) = <<".", "/">>
    THEN doc_path(SubSeq(doc_name, 3, Len(doc_name)))
    ELSE doc_name

\* index_document(name, content): the index after it
index_document(index, name, content) == Put(index, name, Lower(content))

\* a main() that starts serving without the warm-up loop
doc_index_warmup_Skipped == EmptyMap

\* main() of the document server, before app.run: the index after the warm-up
doc_index_warmup == [n \in Glob |-> Lower(ReadText(docs[n]))]

\* call_tool, name == "create_document"
create_document(arguments) ==
    LET doc_name == Get(arguments, "name")
        content == Get(arguments, "content")
    IN
    IF Falsy(doc_name) \/ Falsy(content)
    THEN [res |-> Raise(<<"name", "and", "content", "are", "required">>, <<>>),
          docs |-> docs, document_index |-> document_index]
    ELSE [res |-> Content(<<"Document">>,
                          [name |-> doc_name.v, what |-> "created successfully",
                           len |-> Len(content.v)]),
          docs |-> Put(docs, doc_path(doc_name.v), WriteText(content.v)),
          document_index |-> index_document(document_index, doc_name.v, content.v)]

\* call_tool, name == "read_document"
read_document(arguments) ==
    LET doc_name == Get(arguments, "name") IN
    IF Falsy(doc_name)
    THEN Raise(<<"name", "is", "required">>, <<>>)
    ELSE IF doc_path(doc_name.v) \notin Glob
    THEN Content(<<"Document">>, [name |-> doc_name.v, what |-> "not found"])
    ELSE Content(<<"Document">>,
                 [name |-> doc_name.v, what |-> "content",
                  content |-> ReadText(docs[doc_path(doc_name.v)])])

\* call_tool, name == "list_documents"
list_documents ==
    IF Glob = {}
    THEN Content(<<"No", "documents", "found">>, <<>>)
    ELSE Content(<<"Available", "documents">>,
                 [len |-> Cardinality(Glob), names |-> SortedNames(Glob)])

\* the (name, count) pairs search_documents collects from a map name -> lowercased
\* text, for the names of the sequence `order`
RECURSIVE Matches(_, _, _)
Matches(order, lowered, query_lower) ==
    IF order = <<>> THEN <<>>
    ELSE (IF Contains(lowered[order[1]], query_lower)
          THEN << <<order[1], Count(lowered[order[1]], query_lower)>> >>
          ELSE <<>>)
         \o Matches(Tail(order), lowered, query_lower)

RECURSIVE SortMatches(_)
\* sorted(matches) on (name, count) tuples
SortMatches(m) ==
    IF m = <<>> THEN <<>>
    ELSE LET least(i) == \A j \in 1..Len(m) :
                            \/ StrLess(m[i][1], m[j][1])
                            \/ m[i][1] = m[j][1] /\ m[i][2] <= m[j][2]
             i == CHOOSE i \in 1..Len(m) : least(i)
         IN <<m[i]>> \o SortMatches(SubSeq(m, 1, i - 1) \o SubSeq(m, i + 1, Len(m)))

\* call_tool, name == "search_documents": the outcome and the index after it
search_documents(arguments) ==
    LET query == Get(arguments, "query") IN
    IF Falsy(query)
    THEN [res |-> Raise(<<"query", "is", "required">>, <<>>),
          document_index |-> document_index]
    ELSE
    LET query_lower == Lower(query.v)
        \* the indexed documents
        indexed == Matches(SortedNames(DOMAIN document_index), document_index, query_lower)
        \* the files that are not in the index
        fresh == Glob \ DOMAIN document_index
        read == [n \in fresh |-> Lower(ReadText(docs[n]))]
        unindexed == Matches(SortedNames(fresh), read, query_lower)
        hit == {n \in fresh : Contains(read[n], query_lower)}
        index2 == [n \in DOMAIN document_index \cup hit |->
                      IF n \in hit THEN Lower(ReadText(docs[n])) ELSE document_index[n]]
        matches == indexed \o unindexed
    IN
    IF matches # <<>>
    THEN [res |-> Content(<<"Search", "results", "for">>,
                          [query |-> query.v, results |-> SortMatches(matches)]),
          document_index |-> index2]
    ELSE [res |-> Content(<<"No", "documents", "found", "containing">>,
                          [query |-> query.v, results |-> <<>>]),
          document_index |-> index2]

\* call_tool, name == "append_to_document"
append_to_document(arguments) ==
    LET doc_name == Get(arguments, "name")
        content == Get(arguments, "content")
    IN
    IF Falsy(doc_name) \/ Falsy(content)
    THEN [res |-> Raise(<<"name", "and", "content", "are", "required">>, <<>>),
          docs |-> docs, document_index |-> document_index]
    ELSE IF doc_path(doc_name.v) \notin Glob
    THEN [res |-> Content(<<"Document">>,
                          [name |-> doc_name.v, what |-> "not found. Use create_document first."]),
          docs |-> docs, document_index |-> document_index]
    ELSE
    LET existing_content == ReadText(docs[doc_path(doc_name.v)])
        new_content == existing_content \o <<"\n">> \o content.v
    IN [res |-> Content(<<"Appended">>, [len |-> Len(content.v), name |-> doc_name.v]),
        docs |-> Put(docs, doc_path(doc_name.v), WriteText(new_content)),
        document_index |-> index_document(document_index, doc_name.v, new_content)]

\* call_tool, name == "delete_document"
delete_document(arguments) ==
    LET doc_name == Get(arguments, "name") IN
    IF Falsy(doc_name)
    THEN [res |-> Raise(<<"name", "is", "required">>, <<>>),
          docs |-> docs, document_index |-> document_index]
    ELSE IF doc_path(doc_name.v) \notin Glob
    THEN [res |-> Content(<<"Document">>, [name |-> doc_name.v, what |-> "not found"]),
          docs |-> docs, document_index |-> document_index]
    ELSE [res |-> Content(<<"Document">>, [name |-> doc_name.v, what |-> "deleted successfully"]),
          docs |-> Drop(docs, doc_path(doc_name.v)),
          document_index |-> Drop(document_index, doc_name.v)]

\* "doc://"
DocScheme == <<"d", "o", "c", ":", "/", "/">>

\* list_resources of the document server: the uris, in the order of the list
doc_list_resources ==
    LET stems == SortedNames(Glob) IN [i \in 1..Len(stems) |-> DocScheme \o stems[i]]

\* read_resource of the document server
doc_read_resource(uri) ==
    IF StartsWith(uri, DocScheme)
    THEN IF doc_path(SubSeq(uri, 7, Len(uri))) \in Glob
         THEN Value(ReadText(docs[doc_path(SubSeq(uri, 7, Len(uri)))]))
         ELSE Raise(<<"Document", "not", "found:">>, [name |-> SubSeq(uri, 7, Len(uri))])
    ELSE Raise(<<"Unknown", "resource", "URI:">>, [uri |-> uri])

doc_list_tools ==
    << [name |-> "create_document",    required |-> {"name", "content"}],
       [name |-> "read_document",      required |-> {"name"}],
       [name |-> "list_documents",     required |-> {}],
       [name |-> "search_documents",   required |-> {"query"}],
       [name |-> "append_to_document", required |-> {"name", "content"}],
       [name |-> "delete_document",    required |-> {"name"}] >>

-----------------------------------------------------------------------------
(* servers/database_server.py                                              *)

\* The content of example.db: the names in sqlite_master in rowid order, the
\* rows of users and of products in rowid order, and sqlite_sequence (the
\* largest id an AUTOINCREMENT table has handed out).

\* largest users.id the model lets AUTOINCREMENT hand out
MaxId == 7

TUsers    == <<"u", "s", "e", "r", "s">>
TSequence == <<"s", "q", "l", "i", "t", "e", "_", "s", "e", "q", "u", "e", "n", "c", "e">>
TProducts == <<"p", "r", "o", "d", "u", "c", "t", "s">>
TNotes    == <<"n", "o", "t", "e", "s">>

Alice   == <<"A", "l", "i", "c", "e", " ", "J", "o", "h", "n", "s", "o", "n">>
Bob     == <<"B", "o", "b", " ", "S", "m", "i", "t", "h">>
Charlie == <<"C", "h", "a", "r", "l", "i", "e", " ", "B", "r", "o", "w", "n">>
Dana    == <<"D", "a", "n", "a">>
AliceMail   == <<"a", "l", "i", "c", "e", "@", "e", "x", "a", "m", "p", "l", "e", ".", "c", "o", "m">>
BobMail     == <<"b", "o", "b", "@", "e", "x", "a", "m", "p", "l", "e", ".", "c", "o", "m">>
CharlieMail == <<"c", "h", "a", "r", "l", "i", "e", "@", "e", "x", "a", "m", "p", "l", "e", ".", "c", "o", "m">>
DanaMail    == <<"d", "a", "n", "a", "@", "e", "x", "a", "m", "p", "l", "e", ".", "c", "o", "m">>

User(id, name, email, age) ==
    [id |-> id, name |-> name, email |-> email, age |-> age, created_at |-> "CURRENT_TIMESTAMP"]

Product(id, name, price, category, stock) ==
    [id |-> id, name |-> name, price |-> price, category |-> category, stock |-> stock]

\* the rows init_database inserts into an empty products table
SeedProducts ==
    << Product(1, "Laptop", "999.99", "Electronics", 10),
       Product(2, "Mouse", "29.99", "Electronics", 50),
       Product(3, "Desk Chair", "199.99", "Furniture", 15) >>

\* the (name, email, age) tuples init_database inserts into an empty users table
SeedUsers == << <<Alice, AliceMail, 30>>, <<Bob, BobMail, 25>>, <<Charlie, CharlieMail, 35>> >>

\* no example.db yet: sqlite3.connect creates an empty database
NoDb == [tables |-> <<>>, users |-> <<>>, products |-> <<>>,
         sequence |-> [users |-> 0, products |-> 0]]

\* an example.db an earlier run left: every user was deleted, a table was added
UsedDb == [tables |-> <<TUsers, TSequence, TProducts, TNotes>>, users |-> <<>>,
           products |-> SeedProducts, sequence |-> [users |-> 3, products |-> 3]]

InitialDbs == {NoDb, UsedDb}

HasTable(d, t) == \E i \in 1..Len(d.tables) : d.tables[i] = t

\* CREATE TABLE IF NOT EXISTS t (id INTEGER PRIMARY KEY AUTOINCREMENT, ...): the
\* first AUTOINCREMENT table of a database also creates sqlite_sequence
CreateTableIfNotExists(d, t) ==
    IF HasTable(d, t) THEN d
    ELSE [d EXCEPT !.tables =
             IF HasTable(d, TSequence) THEN Append(d.tables, t)
             ELSE d.tables \o <<t, TSequence>>]

MaxOf(S) == IF S = {} THEN 0 ELSE CHOOSE x \in S : \A y \in S : y <= x

\* the id AUTOINCREMENT gives the next row of users
NextUserId(d) == 1 + MaxOf({d.sequence.users} \cup {d.users[i].id : i \in 1..Len(d.users)})

\* the INSERT on a users table whose email column was declared without UNIQUE
InsertUser_NoUnique(d, name, email, age) ==
    IF ~HasTable(d, TUsers)
    THEN [err |-> "OperationalError", db |-> d, lastrowid |-> 0]
    ELSE IF name.t = "none" \/ email.t = "none"
    THEN [err |-> "IntegrityError", db |-> d, lastrowid |-> 0]
    ELSE [err |-> "",
          db |-> [d EXCEPT !.users = Append(@, User(NextUserId(d), name.v, email.v, age.v)),
                           !.sequence.users = NextUserId(d)],
          lastrowid |-> NextUserId(d)]

\* INSERT INTO users (name, email, age) VALUES (?, ?, ?) inside the open
\* transaction: the error it raises ("" for none) and the database after it
InsertUser(d, name, email, age) ==
    IF ~HasTable(d, TUsers)
    THEN [err |-> "OperationalError", db |-> d, lastrowid |-> 0]
    ELSE IF name.t = "none" \/ email.t = "none"
    THEN [err |-> "IntegrityError", db |-> d, lastrowid |-> 0]
    ELSE IF \E i \in 1..Len(d.users) : d.users[i].email = email.v
    THEN [err |-> "IntegrityError", db |-> d, lastrowid |-> 0]
    ELSE [err |-> "",
          db |-> [d EXCEPT !.users = Append(@, User(NextUserId(d), name.v, email.v, age.v)),
                           !.sequence.users = NextUserId(d)],
          lastrowid |-> NextUserId(d)]

RECURSIVE InsertUsers(_, _)
\* cursor.executemany of the INSERT over a list of tuples
InsertUsers(d, rows) ==
    IF rows = <<>> THEN d
    ELSE InsertUsers(InsertUser(d, Str(rows[1][1]), Str(rows[1][2]), Num(rows[1][3])).db,
                     Tail(rows))

\* init_database() that inserts the sample users without counting the rows first
init_database_AlwaysSeed(d) ==
    LET d1 == CreateTableIfNotExists(d, TUsers)
        d2 == CreateTableIfNotExists(d1, TProducts)
        d3 == InsertUsers(d2, SeedUsers)
        d4 == IF Len(d3.products) = 0
              THEN [d3 EXCEPT !.products = SeedProducts, !.sequence.products = 3]
              ELSE d3
    IN d4

\* init_database(): the database after it has committed
init_database(d) ==
    LET d1 == CreateTableIfNotExists(d, TUsers)
        d2 == CreateTableIfNotExists(d1, TProducts)
        d3 == IF Len(d2.users) = 0 THEN InsertUsers(d2, SeedUsers) ELSE d2
        d4 == IF Len(d3.products) = 0
              THEN [d3 EXCEPT !.products = SeedProducts, !.sequence.products = 3]
              ELSE d3
    IN d4

\* get_connection() and conn.close() on the number of open connections
Open(n) == n + 1
Close(n) == n - 1

\* statements a client sends to execute_query
QSelect      == <<"S", "E", "L", "E", "C", "T", " ", "*", " ", "F", "R", "O", "M", " ", "u", "s", "e", "r", "s">>
QSelectLower == <<" ", "s", "e", "l", "e", "c", "t", " ", "*", " ", "f", "r", "o", "m", " ", "u", "s", "e", "r", "s", " ">>
QDelete      == <<"D", "E", "L", "E", "T", "E", " ", "F", "R", "O", "M", " ", "u", "s", "e", "r", "s">>
QInsertDana  == <<"I", "N", "S", "E", "R", "T", " ", "I", "N", "T", "O", " ", "u", "s", "e", "r", "s", " ", "(", "n", "a", "m", "e", ",", " ", "e", "m", "a", "i", "l", ",", " ", "a", "g", "e", ")", " ", "V", "A", "L", "U", "E", "S", " ", "(", "'", "D", "a", "n", "a", "'", ",", " ", "'", "d", "a", "n", "a", "@", "e", "x", "a", "m", "p", "l", "e", ".", "c", "o", "m", "'", ",", " ", "4", "1", ")">>
QInsertAlice == <<"I", "N", "S", "E", "R", "T", " ", "I", "N", "T", "O", " ", "u", "s", "e", "r", "s", " ", "(", "n", "a", "m", "e", ",", " ", "e", "m", "a", "i", "l", ",", " ", "a", "g", "e", ")", " ", "V", "A", "L", "U", "E", "S", " ", "(", "'", "A", "l", "i", "c", "e", " ", "J", "o", "h", "n", "s", "o", "n", "'", ",", " ", "'", "a", "l", "i", "c", "e", "@", "e", "x", "a", "m", "p", "l", "e", ".", "c", "o", "m", "'", ",", " ", "3", "0", ")">>
QUpdateNoSuch == <<"U", "P", "D", "A", "T", "E", " ", "n", "o", "s", "u", "c", "h", " ", "S", "E", "T", " ", "x", " ", "=", " ", "1">>
QDrop        == <<"D", "R", "O", "P", " ", "T", "A", "B", "L", "E", " ", "u", "s", "e", "r", "s">>
QDropLower   == <<"\n", " ", "d", "r", "o", "p", " ", "t", "a", "b", "l", "e", " ", "u", "s", "e", "r", "s">>
QBlank       == <<" ">>
SqlQueries == {<<>>, QSelect, QSelectLower, QDelete, QInsertDana, QInsertAlice,
               QUpdateNoSuch, QDrop, QDropLower, QBlank}

\* What SQLite does with one statement inside the connection's transaction:
\* the error it raises ("" for none), the rows it returns, cursor.rowcount and
\* the database after it.  Keywords and identifiers are matched without regard
\* to case and to surrounding white space, as SQLite's tokenizer does.
SqliteExecute(d, query) ==
    LET text == Upper(Strip(query))
        fail(e) == [err |-> e, rows |-> <<>>, rowcount |-> -1, db |-> d]
    IN
    CASE text = Upper(QSelect) ->
            IF HasTable(d, TUsers)
            THEN [err |-> "", rows |-> d.users, rowcount |-> -1, db |-> d]
            ELSE fail("OperationalError")
      [] text = Upper(QDelete) ->
            IF HasTable(d, TUsers)
            THEN [err |-> "", rows |-> <<>>, rowcount |-> Len(d.users),
                  db |-> [d EXCEPT !.users = <<>>]]
            ELSE fail("OperationalError")
      [] text = Upper(QInsertDana) ->
            LET r == InsertUser(d, Str(Dana), Str(DanaMail), Num(41))
            IN [err |-> r.err, rows |-> <<>>, rowcount |-> IF r.err = "" THEN 1 ELSE -1,
                db |-> r.db]
      [] text = Upper(QInsertAlice) ->
            LET r == InsertUser(d, Str(Alice), Str(AliceMail), Num(30))
            IN [err |-> r.err, rows |-> <<>>, rowcount |-> IF r.err = "" THEN 1 ELSE -1,
                db |-> r.db]
      [] text = Upper(QDrop) ->
            IF HasTable(d, TUsers)
            THEN [err |-> "", rows |-> <<>>, rowcount |-> -1,
                  db |-> [d EXCEPT !.tables = SelectSeq(@, LAMBDA t : t # TUsers),
                                   !.users = <<>>, !.sequence.users = 0]]
            ELSE fail("OperationalError")
      [] OTHER -> fail("OperationalError")

\* the verbs execute_query lets through
AllowedVerbs == { <<"S", "E", "L", "E", "C", "T">>, <<"I", "N", "S", "E", "R", "T">>, <<"U", "P", "D", "A", "T", "E">>, <<"D", "E", "L", "E", "T", "E">> }

\* execute_query without the test of the leading verb
execute_query_NoVerbCheck(arguments) ==
    LET query == Get(arguments, "query") IN
    IF Falsy(query)
    THEN [res |-> Raise(<<"query", "is", "required">>, <<>>), sql |-> <<>>,
          db |-> db, conns |-> conns]
    ELSE
    LET query_upper == Upper(Strip(query.v))
        r == SqliteExecute(db, query.v)
    IN
    IF r.err # ""
    THEN [res |-> Content(<<"Error", "executing", "query:">>, [e |-> r.err]),
          sql |-> <<query.v>>, db |-> db, conns |-> Close(Open(conns))]
    ELSE IF StartsWith(query_upper, <<"S", "E", "L", "E", "C", "T">>)
    THEN [res |-> IF r.rows # <<>>
                  THEN Content(<<"Query", "results">>, [len |-> Len(r.rows), rows |-> r.rows])
                  ELSE Content(<<"Query", "executed", "successfully,", "but", "returned",
                                 "no", "results">>, <<>>),
          sql |-> <<query.v>>, db |-> db, conns |-> Close(Open(conns))]
    ELSE [res |-> Content(<<"Query", "executed", "successfully.", "Rows", "affected:">>,
                          [rowcount |-> r.rowcount]),
          sql |-> <<query.v>>, db |-> r.db, conns |-> Close(Open(conns))]

\* execute_query that closes the connection without conn.commit()
execute_query_NoCommit(arguments) ==
    LET query == Get(arguments, "query") IN
    IF Falsy(query)
    THEN [res |-> Raise(<<"query", "is", "required">>, <<>>), sql |-> <<>>,
          db |-> db, conns |-> conns]
    ELSE
    LET query_upper == Upper(Strip(query.v))
        r == SqliteExecute(db, query.v)
    IN
    IF ~ \E cmd \in AllowedVerbs : StartsWith(query_upper, cmd)
    THEN [res |-> Content(<<"Error:", "Only", "SELECT,", "INSERT,", "UPDATE,", "DELETE",
                            "queries", "are", "allowed">>, <<>>),
          sql |-> <<>>, db |-> db, conns |-> Close(Open(conns))]
    ELSE IF r.err # ""
    THEN \* except Exception: conn.rollback()
         [res |-> Content(<<"Error", "executing", "query:">>, [e |-> r.err]),
          sql |-> <<query.v>>, db |-> db, conns |-> Close(Open(conns))]
    ELSE IF StartsWith(query_upper, <<"S", "E", "L", "E", "C", "T">>)
    THEN [res |-> IF r.rows # <<>>
                  THEN Content(<<"Query", "results">>, [len |-> Len(r.rows), rows |-> r.rows])
                  ELSE Content(<<"Query", "executed", "successfully,", "but", "returned",
                                 "no", "results">>, <<>>),
          sql |-> <<query.v>>, db |-> db, conns |-> Close(Open(conns))]
    ELSE [res |-> Content(<<"Query", "executed", "successfully.", "Rows", "affected:">>,
                          [rowcount |-> r.rowcount]),
          sql |-> <<query.v>>, db |-> db, conns |-> Close(Open(conns))]

\* call_tool, name == "execute_query": the outcome, the statements passed to the
\* cursor, the committed database and the open connections after it
execute_query(arguments) ==
    LET query == Get(arguments, "query") IN
    IF Falsy(query)
    THEN [res |-> Raise(<<"query", "is", "required">>, <<>>), sql |-> <<>>,
          db |-> db, conns |-> conns]
    ELSE
    LET query_upper == Upper(Strip(query.v))
        r == SqliteExecute(db, query.v)
    IN
    IF ~ \E cmd \in AllowedVerbs : StartsWith(query_upper, cmd)
    THEN [res |-> Content(<<"Error:", "Only", "SELECT,", "INSERT,", "UPDATE,", "DELETE",
                            "queries", "are", "allowed">>, <<>>),
          sql |-> <<>>, db |-> db, conns |-> Close(Open(conns))]
    ELSE IF r.err # ""
    THEN \* except Exception: conn.rollback()
         [res |-> Content(<<"Error", "executing", "query:">>, [e |-> r.err]),
          sql |-> <<query.v>>, db |-> db, conns |-> Close(Open(conns))]
    ELSE IF StartsWith(query_upper, <<"S", "E", "L", "E", "C", "T">>)
    THEN [res |-> IF r.rows # <<>>
                  THEN Content(<<"Query", "results">>, [len |-> Len(r.rows), rows |-> r.rows])
                  ELSE Content(<<"Query", "executed", "successfully,", "but", "returned",
                                 "no", "results">>, <<>>),
          sql |-> <<query.v>>, db |-> db, conns |-> Close(Open(conns))]
    ELSE \* conn.commit()
         [res |-> Content(<<"Query", "executed", "successfully.", "Rows", "affected:">>,
                          [rowcount |-> r.rowcount]),
          sql |-> <<query.v>>, db |-> r.db, conns |-> Close(Open(conns))]

\* SELECT name FROM sqlite_master WHERE type='table'
TablesQuery == <<"S", "E", "L", "E", "C", "T", " ", "n", "a", "m", "e", " ", "F", "R", "O", "M", " ", "s", "q", "l", "i", "t", "e", "_", "m", "a", "s", "t", "e", "r", " ", "W", "H", "E", "R", "E", " ", "t", "y", "p", "e", "=", "'", "t", "a", "b", "l", "e", "'">>

\* list_tables that runs init_database() before it lists
list_tables_Reinit ==
    [res |-> Content(<<"Database", "tables:">>, [tables |-> init_database(db).tables]),
     sql |-> <<TablesQuery>>, db |-> init_database(db), conns |-> Close(Open(conns))]

\* call_tool, name == "list_tables"
list_tables ==
    [res |-> Content(<<"Database", "tables:">>, [tables |-> db.tables]),
     sql |-> <<TablesQuery>>, db |-> db, conns |-> Close(Open(conns))]

\* table names a client sends to describe_table
TableNames == {<<>>, TUsers, TProducts, TNotes}

\* PRAGMA table_info(t): (name, type, notnull) of each column
TableInfo(d, t) ==
    IF ~HasTable(d, t) THEN <<>>
    ELSE CASE t = TUsers ->
                << <<"id", "INTEGER", 0>>, <<"name", "TEXT", 1>>, <<"email", "TEXT", 1>>,
                   <<"age", "INTEGER", 0>>, <<"created_at", "TIMESTAMP", 0>> >>
           [] t = TProducts ->
                << <<"id", "INTEGER", 0>>, <<"name", "TEXT", 1>>, <<"price", "REAL", 1>>,
                   <<"category", "TEXT", 0>>, <<"stock", "INTEGER", 0>> >>
           [] OTHER -> << <<"id", "INTEGER", 0>> >>

\* call_tool, name == "describe_table"
describe_table(arguments) ==
    LET table_name == Get(arguments, "table_name") IN
    IF Falsy(table_name)
    THEN [res |-> Raise(<<"table_name", "is", "required">>, <<>>), sql |-> <<>>,
          db |-> db, conns |-> conns]
    ELSE
    LET columns == TableInfo(db, table_name.v) IN
    [res |-> IF columns = <<>>
             THEN Content(<<"Table">>, [name |-> table_name.v, what |-> "not found"])
             ELSE Content(<<"Table">>, [name |-> table_name.v, what |-> "schema",
                                        columns |-> columns]),
     sql |-> << <<"PRAGMA table_info(">> \o table_name.v \o <<")">> >>,
     db |-> db, conns |-> Close(Open(conns))]

\* names, emails and ages a client sends to insert_user and get_user
UserNames == {<<>>, Dana}
Emails == {<<>>, DanaMail, AliceMail}
Ages == {0, 41}

InsertStatement == <<"I", "N", "S", "E", "R", "T", " ", "I", "N", "T", "O", " ", "u", "s", "e", "r", "s", " ", "(", "n", "a", "m", "e", ",", " ", "e", "m", "a", "i", "l", ",", " ", "a", "g", "e", ")", " ", "V", "A", "L", "U", "E", "S", " ", "(", "?", ",", " ", "?", ",", " ", "?", ")">>

\* call_tool, name == "insert_user"
insert_user(arguments) ==
    LET name == Get(arguments, "name")
        email == Get(arguments, "email")
        age == Get(arguments, "age")
    IN
    IF Falsy(name) \/ Falsy(email) \/ age = None
    THEN [res |-> Raise(<<"name,", "email,", "and", "age", "are", "required">>, <<>>),
          sql |-> <<>>, db |-> db, conns |-> conns]
    ELSE
    LET r == InsertUser(db, name, email, age) IN
    IF r.err = ""
    THEN \* conn.commit()
         [res |-> Content(<<"User">>, [name |-> name.v, what |-> "inserted successfully with ID",
                                       lastrowid |-> r.lastrowid]),
          sql |-> <<InsertStatement>>, db |-> r.db, conns |-> Close(Open(conns))]
    ELSE IF r.err = "IntegrityError"
    THEN [res |-> Content(<<"Error:">>, [e |-> r.err]),
          sql |-> <<InsertStatement>>, db |-> db, conns |-> Close(Open(conns))]
    ELSE \* conn.rollback()
         [res |-> Content(<<"Error", "inserting", "user:">>, [e |-> r.err]),
          sql |-> <<InsertStatement>>, db |-> db, conns |-> Close(Open(conns))]

SelectUserStatement == <<"S", "E", "L", "E", "C", "T", " ", "*", " ", "F", "R", "O", "M", " ", "u", "s", "e", "r", "s", " ", "W", "H", "E", "R", "E", " ", "e", "m", "a", "i", "l", " ", "=", " ", "?">>

\* get_user with conn.close() as its last statement instead of try/finally
get_user_NoFinally(arguments) ==
    LET email == Get(arguments, "email") IN
    IF Falsy(email)
    THEN [res |-> Raise(<<"email", "is", "required">>, <<>>), sql |-> <<>>,
          db |-> db, conns |-> conns]
    ELSE IF email.t = "list"
    THEN \* cursor.execute cannot bind a list: sqlite3.ProgrammingError (InterfaceError
         \* before Python 3.11) leaves the handler through finally
         [res |-> Raise(<<"Error", "binding", "parameter">>, [e |-> "ProgrammingError"]),
          sql |-> <<SelectUserStatement>>, db |-> db, conns |-> Open(conns)]
    ELSE IF ~HasTable(db, TUsers)
    THEN \* sqlite3.OperationalError leaves the handler through finally
         [res |-> Raise(<<"no", "such", "table:">>, [e |-> "OperationalError"]),
          sql |-> <<SelectUserStatement>>, db |-> db, conns |-> Open(conns)]
    ELSE
    LET hits == SelectSeq(db.users, LAMBDA row : row.email = email.v) IN
    [res |-> IF hits # <<>>
             THEN Content(<<"User", "found:">>, [user |-> hits[1]])
             ELSE Content(<<"No", "user", "found", "with", "email:">>, [email |-> email.v]),
     sql |-> <<SelectUserStatement>>, db |-> db, conns |-> Close(Open(conns))]

\* call_tool, name == "get_user"
get_user(arguments) ==
    LET email == Get(arguments, "email") IN
    IF Falsy(email)
    THEN [res |-> Raise(<<"email", "is", "required">>, <<>>), sql |-> <<>>,
          db |-> db, conns |-> conns]
    ELSE IF email.t = "list"
    THEN \* cursor.execute cannot bind a list: sqlite3.ProgrammingError (InterfaceError
         \* before Python 3.11) leaves the handler through finally
         [res |-> Raise(<<"Error", "binding", "parameter">>, [e |-> "ProgrammingError"]),
          sql |-> <<SelectUserStatement>>, db |-> db, conns |-> Close(Open(conns))]
    ELSE IF ~HasTable(db, TUsers)
    THEN \* sqlite3.OperationalError leaves the handler through finally
         [res |-> Raise(<<"no", "such", "table:">>, [e |-> "OperationalError"]),
          sql |-> <<SelectUserStatement>>, db |-> db, conns |-> Close(Open(conns))]
    ELSE
    LET hits == SelectSeq(db.users, LAMBDA row : row.email = email.v) IN
    [res |-> IF hits # <<>>
             THEN Content(<<"User", "found:">>, [user |-> hits[1]])
             ELSE Content(<<"No", "user", "found", "with", "email:">>, [email |-> email.v]),
     sql |-> <<SelectUserStatement>>, db |-> db, conns |-> Close(Open(conns))]

\* list_resources of the database server
db_list_resources == << <<"d", "b", ":", "/", "/", "s", "c", "h", "e", "m", "a">>, <<"d", "b", ":", "/", "/", "t", "a", "b", "l", "e", "s">> >>

\* read_resource of the database server
db_read_resource(uri) ==
    [res |-> IF uri = db_list_resources[1]
             THEN Value([schema |-> db.tables])
             ELSE IF uri = db_list_resources[2]
             THEN Value([tables |-> db.tables])
             ELSE Raise(<<"Unknown", "resource:">>, [uri |-> uri]),
     sql |-> IF uri = db_list_resources[1] \/ uri = db_list_resources[2]
             THEN <<TablesQuery>> ELSE <<>>,
     db |-> db, conns |-> Close(Open(conns))]

db_list_tools ==
    << [name |-> "execute_query",  required |-> {"query"}],
       [name |-> "list_tables",    required |-> {}],
       [name |-> "describe_table", required |-> {"table_name"}],
       [name |-> "insert_user",    required |-> {"name", "email", "age"}],
       [name |-> "get_user",       required |-> {"email"}] >>

-----------------------------------------------------------------------------
(* call_tool: the dispatch on the tool name                                *)

\* a call_tool of the code server without the list_code_snippets branch
code_call_tool_NoListing(name, arguments, late) ==
    LET out(res, store, fs, procs) ==
            [res |-> res, code_store |-> store, files |-> fs, running |-> procs]
    IN
    CASE name = "read_file" ->
            out(read_file(arguments), code_store, files, running)
      [] name = "write_file" ->
            out(write_file(arguments).res, code_store, write_file(arguments).files, running)
      [] name = "execute_code" ->
            out(execute_code(arguments, late).res, code_store, files,
                execute_code(arguments, late).running)
      [] name = "save_code_snippet" ->
            out(save_code_snippet(arguments).res, save_code_snippet(arguments).code_store,
                files, running)
      [] OTHER ->
            out(unknown_tool(name), code_store, files, running)

\* call_tool of the code server: the outcome and the state after it
code_call_tool(name, arguments, late) ==
    LET out(res, store, fs, procs) ==
            [res |-> res, code_store |-> store, files |-> fs, running |-> procs]
    IN
    CASE name = "read_file" ->
            out(read_file(arguments), code_store, files, running)
      [] name = "write_file" ->
            out(write_file(arguments).res, code_store, write_file(arguments).files, running)
      [] name = "execute_code" ->
            out(execute_code(arguments, late).res, code_store, files,
                execute_code(arguments, late).running)
      [] name = "save_code_snippet" ->
            out(save_code_snippet(arguments).res, save_code_snippet(arguments).code_store,
                files, running)
      [] name = "list_code_snippets" ->
            out(list_code_snippets, code_store, files, running)
      [] OTHER ->
            out(unknown_tool(name), code_store, files, running)

\* call_tool of the database server
db_call_tool(name, arguments) ==
    CASE name = "execute_query" -> execute_query(arguments)
      [] name = "list_tables" -> list_tables
      [] name = "describe_table" -> describe_table(arguments)
      [] name = "insert_user" -> insert_user(arguments)
      [] name = "get_user" -> get_user(arguments)
      [] OTHER -> [res |-> unknown_tool(name), sql |-> <<>>, db |-> db, conns |-> conns]

\* call_tool of the document server
doc_call_tool(name, arguments) ==
    LET out(res, index) == [res |-> res, docs |-> docs, document_index |-> index] IN
    CASE name = "create_document" -> create_document(arguments)
      [] name = "read_document" -> out(read_document(arguments), document_index)
      [] name = "list_documents" -> out(list_documents, document_index)
      [] name = "search_documents" ->
            out(search_documents(arguments).res, search_documents(arguments).document_index)
      [] name = "append_to_document" -> append_to_document(arguments)
      [] name = "delete_document" -> delete_document(arguments)
      [] OTHER -> out(unknown_tool(name), document_index)

-----------------------------------------------------------------------------
(* What a client sends                                                     *)

Arg1(k, v) == [x \in {k} |-> v]
Arg2(k1, v1, k2, v2) == [x \in {k1, k2} |-> IF x = k1 THEN v1 ELSE v2]
Arg3(k1, v1, k2, v2, k3, v3) ==
    [x \in {k1, k2, k3} |-> IF x = k1 THEN v1 ELSE IF x = k2 THEN v2 ELSE v3]

\* a well-formed argument map with one key left out or sent as null
Defects(a) == {Drop(a, k) : k \in DOMAIN a} \cup {Put(a, k, None) : k \in DOMAIN a}

StrsOf(S) == {Str(x) : x \in S}

ReadFileArgs ==
    {Arg1("file_path", p) : p \in StrsOf(Paths \cup {<<>>})}
    \cup Defects(Arg1("file_path", Str(PathP)))

WriteFileArgs ==
    {Arg2("file_path", p, "content", c) : p \in StrsOf(Paths), c \in StrsOf(Texts)}
    \cup {Arg2("file_path", Str(<<>>), "content", Str(TextHi))}
    \cup Defects(Arg2("file_path", Str(PathP), "content", Str(TextHi)))

ExecuteCodeArgs ==
    {Arg1("code", c) : c \in StrsOf(Programs)} \cup Defects(Arg1("code", Str(ProgOk)))

SaveSnippetArgs ==
    {Arg2("name", n, "code", c) : n \in StrsOf(SnippetNames), c \in StrsOf(SnippetCodes)}
    \cup Defects(Arg2("name", Str(NameA), "code", Str(TextHi)))

NoArgs == {EmptyMap}

CodeUris ==
    {CodeScheme \o n : n \in SnippetNames \ {<<>>}}
    \cup {CodeScheme, DocScheme \o NameA, <<"C", "O", "D", "E", ":", "/", "/", "a">>}

CreateDocumentArgs ==
    {Arg2("name", n, "content", c) : n \in StrsOf(DocNames), c \in StrsOf(DocTexts)}
    \cup {Arg2("name", Str(<<>>), "content", Str(DocB)),
          Arg2("name", Str(NameA), "content", Str(<<>>))}
    \cup Defects(Arg2("name", Str(NameA), "content", Str(DocB)))

\* append_to_document: the texts appended are the one-character texts
AppendArgs ==
    {Arg2("name", n, "content", c) : n \in StrsOf(DocNames), c \in StrsOf({DocB, DocCr})}
    \cup {Arg2("name", Str(<<>>), "content", Str(DocB)),
          Arg2("name", Str(NameA), "content", Str(<<>>))}
    \cup Defects(Arg2("name", Str(NameA), "content", Str(DocB)))

\* create_document under the other path of document a
CreateByPathArgs == {Arg2("name", Str(NameDotA), "content", Str(DocB))}

DocNameArgs ==
    {Arg1("name", n) : n \in StrsOf(DocNames \cup {<<>>, NameDotA})}
    \cup Defects(Arg1("name", Str(NameA)))

SearchArgs ==
    {Arg1("query", q) : q \in StrsOf(Queries \cup {<<>>})}
    \cup Defects(Arg1("query", Str(<<"a">>)))

DocUris ==
    {DocScheme \o n : n \in DocNames}
    \cup {DocScheme, DocScheme \o NameUpperA, DocScheme \o NameDotA, CodeScheme \o NameA}

ExecuteQueryArgs ==
    {Arg1("query", q) : q \in StrsOf(SqlQueries)} \cup Defects(Arg1("query", Str(QSelect)))

DescribeTableArgs ==
    {Arg1("table_name", t) : t \in StrsOf(TableNames)}
    \cup Defects(Arg1("table_name", Str(TUsers)))

InsertUserArgs ==
    {Arg3("name", n, "email", e, "age", Num(a)) :
        n \in StrsOf(UserNames), e \in StrsOf(Emails), a \in Ages}
    \cup Defects(Arg3("name", Str(Dana), "email", Str(DanaMail), "age", Num(41)))

GetUserArgs ==
    {Arg1("email", e) : e \in StrsOf(Emails)} \cup Defects(Arg1("email", Str(DanaMail)))
    \cup {Arg1("email", Lst(<<Str(DanaMail)>>))}

DbUris == {db_list_resources[1], db_list_resources[2], <<"d", "b", ":", "/", "/", "x">>,
           <<"d", "b", ":", "/", "/", "T", "A", "B", "L", "E", "S">>, DocScheme \o NameA}

ToolNames(catalog) == {catalog[i].name : i \in 1..Len(catalog)}

\* tool names a client may send that no branch of the server's call_tool handles
CodeStrays == {"", "READ_FILE", "list_tables"}
DbStrays   == {"", "read_file", "list_documents"}
DocStrays  == {"", "read_file", "list_tables"}

\* argument maps sent along with such a name
AnyArgs == {EmptyMap, Arg2("name", Str(NameA), "content", Str(DocB))}

UriArg(uri) == Arg1("uri", Str(uri))

-----------------------------------------------------------------------------
(* The server processes                                                    *)

Servers == {"code", "database", "document"}

InitFor(s) ==
    /\ server = s
    /\ phase = "startup"
    /\ code_store = <<>>
    /\ files \in (IF s = "code" THEN InitialFiles ELSE {EmptyMap})
    /\ running = {}
    /\ docs \in (IF s = "document" THEN InitialDirs ELSE {EmptyMap})
    /\ document_index = EmptyMap
    /\ db \in (IF s = "database" THEN InitialDbs ELSE {NoDb})
    /\ conns = 0
    /\ last = NoCall

Init == \E s \in Servers : InitFor(s)

Serving(s) == server = s /\ phase = "serving"

\* ---- code server ----

\* main(): nothing to set up, app.run starts serving
code_main ==
    /\ server = "code" /\ phase = "startup"
    /\ phase' = "serving"
    /\ UNCHANGED <<server, codeVars, docVars, dbVars, last>>

CodeCall(name, arguments, late) ==
    LET out == code_call_tool(name, arguments, late) IN
    /\ Serving("code")
    /\ code_store' = out.code_store
    /\ files' = out.files
    /\ running' = out.running
    /\ Reply("call_tool", name, arguments, out.res, <<>>)
    /\ UNCHANGED <<server, phase, docVars, dbVars>>

CodeReadFile == \E arguments \in ReadFileArgs : CodeCall("read_file", arguments, FALSE)

CodeWriteFile == \E arguments \in WriteFileArgs : CodeCall("write_file", arguments, FALSE)

CodeExecuteCode ==
    \E arguments \in ExecuteCodeArgs, late \in BOOLEAN :
        CodeCall("execute_code", arguments, late)

CodeSaveCodeSnippet ==
    \E arguments \in SaveSnippetArgs : CodeCall("save_code_snippet", arguments, FALSE)

CodeListCodeSnippets == CodeCall("list_code_snippets", EmptyMap, FALSE)

CodeUnknownTool ==
    \E name \in CodeStrays, arguments \in AnyArgs : CodeCall(name, arguments, FALSE)

CodeListResources ==
    /\ Serving("code")
    /\ Reply("list_resources", "", EmptyMap, Value(code_list_resources), <<>>)
    /\ UNCHANGED <<server, phase, codeVars, docVars, dbVars>>

CodeReadResource ==
    /\ Serving("code")
    /\ \E uri \in CodeUris :
          Reply("read_resource", "", UriArg(uri), code_read_resource(uri), <<>>)
    /\ UNCHANGED <<server, phase, codeVars, docVars, dbVars>>

CodeListTools ==
    /\ Serving("code")
    /\ Reply("list_tools", "", EmptyMap, Value(code_list_tools), <<>>)
    /\ UNCHANGED <<server, phase, codeVars, docVars, dbVars>>

CodeNext ==
    \/ code_main
    \/ CodeReadFile
    \/ CodeWriteFile
    \/ CodeExecuteCode
    \/ CodeSaveCodeSnippet
    \/ CodeListCodeSnippets
    \/ CodeUnknownTool
    \/ CodeListResources
    \/ CodeReadResource
    \/ CodeListTools

\* ---- database server ----

\* main(): init_database(), then app.run starts serving
db_main ==
    /\ server = "database" /\ phase = "startup"
    /\ db' = init_database(db)
    /\ conns' = Close(Open(conns))
    /\ phase' = "serving"
    /\ UNCHANGED <<server, codeVars, docVars, last>>

\* an id beyond MaxId is never handed out
DbCall(name, arguments) ==
    LET out == db_call_tool(name, arguments) IN
    /\ Serving("database")
    /\ out.db.sequence.users <= MaxId
    /\ db' = out.db
    /\ conns' = out.conns
    /\ Reply("call_tool", name, arguments, out.res, out.sql)
    /\ UNCHANGED <<server, phase, codeVars, docVars>>

DbExecuteQuery == \E arguments \in ExecuteQueryArgs : DbCall("execute_query", arguments)

DbListTables == DbCall("list_tables", EmptyMap)

DbDescribeTable == \E arguments \in DescribeTableArgs : DbCall("describe_table", arguments)

DbInsertUser == \E arguments \in InsertUserArgs : DbCall("insert_user", arguments)

DbGetUser == \E arguments \in GetUserArgs : DbCall("get_user", arguments)

DbUnknownTool == \E name \in DbStrays, arguments \in AnyArgs : DbCall(name, arguments)

DbListResources ==
    /\ Serving("database")
    /\ Reply("list_resources", "", EmptyMap, Value(db_list_resources), <<>>)
    /\ UNCHANGED <<server, phase, codeVars, docVars, dbVars>>

DbReadResource ==
    /\ Serving("database")
    /\ \E uri \in DbUris :
          LET out == db_read_resource(uri) IN
          /\ db' = out.db
          /\ conns' = out.conns
          /\ Reply("read_resource", "", UriArg(uri), out.res, out.sql)
    /\ UNCHANGED <<server, phase, codeVars, docVars>>

DbListTools ==
    /\ Serving("database")
    /\ Reply("list_tools", "", EmptyMap, Value(db_list_tools), <<>>)
    /\ UNCHANGED <<server, phase, codeVars, docVars, dbVars>>

DbNext ==
    \/ db_main
    \/ DbExecuteQuery
    \/ DbListTables
    \/ DbDescribeTable
    \/ DbInsertUser
    \/ DbGetUser
    \/ DbUnknownTool
    \/ DbListResources
    \/ DbReadResource
    \/ DbListTools

\* ---- document server ----

\* main(): index the documents that exist, then app.run starts serving
doc_main ==
    /\ server = "document" /\ phase = "startup"
    /\ document_index' = doc_index_warmup
    /\ phase' = "serving"
    /\ UNCHANGED <<server, codeVars, docs, dbVars, last>>

DocCall(name, arguments) ==
    LET out == doc_call_tool(name, arguments) IN
    /\ Serving("document")
    /\ docs' = out.docs
    /\ document_index' = out.document_index
    /\ Reply("call_tool", name, arguments, out.res, <<>>)
    /\ UNCHANGED <<server, phase, codeVars, dbVars>>

DocCreateDocument ==
    \E arguments \in CreateDocumentArgs \cup CreateByPathArgs :
        DocCall("create_document", arguments)

DocReadDocument == \E arguments \in DocNameArgs : DocCall("read_document", arguments)

DocListDocuments == DocCall("list_documents", EmptyMap)

DocSearchDocuments == \E arguments \in SearchArgs : DocCall("search_documents", arguments)

\* a text longer than MaxLen is never built
DocAppendToDocument ==
    \E arguments \in AppendArgs :
        /\ \A n \in DOMAIN doc_call_tool("append_to_document", arguments).docs :
              Len(doc_call_tool("append_to_document", arguments).docs[n]) <= MaxLen
        /\ DocCall("append_to_document", arguments)

DocDeleteDocument == \E arguments \in DocNameArgs : DocCall("delete_document", arguments)

DocUnknownTool == \E name \in DocStrays, arguments \in AnyArgs : DocCall(name, arguments)

DocListResources ==
    /\ Serving("document")
    /\ Reply("list_resources", "", EmptyMap, Value(doc_list_resources), <<>>)
    /\ UNCHANGED <<server, phase, codeVars, docVars, dbVars>>

DocReadResource ==
    /\ Serving("document")
    /\ \E uri \in DocUris :
          Reply("read_resource", "", UriArg(uri), doc_read_resource(uri), <<>>)
    /\ UNCHANGED <<server, phase, codeVars, docVars, dbVars>>

DocListTools ==
    /\ Serving("document")
    /\ Reply("list_tools", "", EmptyMap, Value(doc_list_tools), <<>>)
    /\ UNCHANGED <<server, phase, codeVars, docVars, dbVars>>

DocNext ==
    \/ doc_main
    \/ DocCreateDocument
    \/ DocReadDocument
    \/ DocListDocuments
    \/ DocSearchDocuments
    \/ DocAppendToDocument
    \/ DocDeleteDocument
    \/ DocUnknownTool
    \/ DocListResources
    \/ DocReadResource
    \/ DocListTools

Next == CodeNext \/ DbNext \/ DocNext

Spec == Init /\ [][Next]_vars

CodeSpec == InitFor("code") /\ [][CodeNext]_vars
DbSpec == InitFor("database") /\ [][DbNext]_vars
DocSpec == InitFor("document") /\ [][DocNext]_vars

\* ---- the documents directory shared with other programs ----

\* another program puts a .txt file into the documents directory while the
\* server runs: the file the second loop of search_documents looks for
DocFileAppears ==
    /\ Serving("document")
    /\ \E n \in DocNames \ Glob, content \in DocTexts : docs' = Put(docs, n, content)
    /\ UNCHANGED <<server, phase, codeVars, document_index, dbVars, last>>

DocOpenNext == DocNext \/ DocFileAppears

DocOpenSpec == InitFor("document") /\ [][DocOpenNext]_vars

-----------------------------------------------------------------------------
(* Properties                                                              *)

\* list_tools of the server this process is
Catalog ==
    CASE server = "code" -> code_list_tools
      [] server = "database" -> db_list_tools
      [] server = "document" -> doc_list_tools

\* the invocation is call_tool(name, ...)
Called(call, name) == call.op = "call_tool" /\ call.name = name

\* key is absent from the argument map of the invocation, or null
Lacks(call, key) == key \notin DOMAIN call.arguments \/ call.arguments[key] = None

\* the invocation names a declared tool and lacks one of its required keys
LacksRequired(call) ==
    /\ call.op = "call_tool"
    /\ \E i \in 1..Len(Catalog) :
          /\ Catalog[i].name = call.name
          /\ \E key \in Catalog[i].required : Lacks(call, key)

\* the outcome is the error raised for a missing argument
ContractViolation(res) ==
    res.kind = "raise" /\ res.head # <<>> /\ res.head[Len(res.head)] = "required"

\* C1: a call_tool invocation of a declared tool in which a required key is
\* absent or null raises the contract-violation error (it is not returned as
\* content) and leaves the snippet store, the files, the spawned processes, the
\* documents, the document index and the database as they were.
C1_MissingArgumentRaises ==
    [][ LacksRequired(last') =>
            /\ ContractViolation(last'.res)
            /\ last'.sql = <<>>
            /\ UNCHANGED domainVars ]_vars

\* C1 happens: a declared tool was called without one of its required keys, in a
\* state that holds data
C1_Witness ==
    /\ LacksRequired(last)
    /\ last.res.kind = "raise"
    /\ \/ code_store # <<>>
       \/ DOMAIN docs # {}
       \/ Len(db.users) > 3

\* C2: call_tool with a name that list_tools does not declare raises the
\* unknown-tool error, whatever the argument map and the state, and leaves all
\* domain state as it was.
C2_UnknownToolRaises ==
    [][ (last'.op = "call_tool" /\ last'.name \notin ToolNames(Catalog)) =>
            /\ last'.res = Raise(<<"Unknown", "tool:">>, [name |-> last'.name])
            /\ last'.sql = <<>>
            /\ UNCHANGED domainVars ]_vars

\* C2 happens: an undeclared name was called with arguments, in a state that
\* holds data
C2_Witness ==
    /\ last.op = "call_tool"
    /\ last.name \notin ToolNames(Catalog)
    /\ last.arguments # EmptyMap
    /\ last.res.kind = "raise"
    /\ \/ code_store # <<>>
       \/ DOMAIN docs # {}
       \/ Len(db.users) > 3

\* the invocation is a write_file that reported success
WroteFile(call) ==
    /\ Called(call, "write_file")
    /\ call.res.kind = "content"
    /\ call.res.head = <<"Successfully", "wrote">>

\* C3: round trip on the code server: a successful write_file(p, c) followed by
\* read_file(p) returns exactly c.
C3_WriteThenReadReturnsContent ==
    [][ ( /\ WroteFile(last)
          /\ Called(last', "read_file")
          /\ Get(last'.arguments, "file_path") = last.arguments.file_path )
        => /\ last'.res.kind = "content"
           /\ last'.res.head = <<"File", "contents", "of">>
           /\ last'.res.data.content = last.arguments.content.v ]_vars

\* the invocation is a create_document that reported success
CreatedDocument(call) ==
    /\ Called(call, "create_document")
    /\ call.res.kind = "content"
    /\ call.res.data.what = "created successfully"

\* C4: round trip on the document server: a successful create_document(n, c)
\* followed by read_document(n) returns exactly c, also when n existed before.
C4_CreateThenReadReturnsContent ==
    [][ ( /\ CreatedDocument(last)
          /\ Called(last', "read_document")
          /\ Get(last'.arguments, "name") = last.arguments.name )
        => /\ last'.res.kind = "content"
           /\ last'.res.data.what = "content"
           /\ last'.res.data.content = last.arguments.content.v ]_vars

\* the invocation is an insert_user that reported success
InsertedUser(call) ==
    /\ Called(call, "insert_user")
    /\ call.res.kind = "content"
    /\ call.res.head = <<"User">>
    /\ call.res.data.what = "inserted successfully with ID"

\* the invocation gives insert_user a name, an email and an age, none of them null
GivesUser(call) ==
    /\ Called(call, "insert_user")
    /\ ~Lacks(call, "name") /\ ~Lacks(call, "email") /\ ~Lacks(call, "age")

EmailExists(d, email) == \E i \in 1..Len(d.users) : d.users[i].email = email

\* C5: for every name, email and age such that no user has that email,
\* insert_user succeeds, and a following get_user(email) returns a record with
\* exactly that name and age.
C5_InsertThenGetReturnsUser ==
    [][ /\ (GivesUser(last') /\ ~EmailExists(db, last'.arguments.email.v))
            => InsertedUser(last')
        /\ ( /\ InsertedUser(last)
             /\ Called(last', "get_user")
             /\ Get(last'.arguments, "email") = last.arguments.email )
            => /\ last'.res.kind = "content"
               /\ last'.res.head = <<"User", "found:">>
               /\ last'.res.data.user.name = last.arguments.name.v
               /\ last'.res.data.user.age = last.arguments.age.v ]_vars

\* the invocation passes the argument check of insert_user
PassesInsertCheck(call) ==
    /\ Called(call, "insert_user")
    /\ ~Falsy(Get(call.arguments, "name"))
    /\ ~Falsy(Get(call.arguments, "email"))
    /\ ~Lacks(call, "age")

DocumentText(n) == ReadText(docs[n])

\* C7: search_documents(q), q not empty, lists exactly the stored documents
\* whose text contains q without regard to case, each once, with the number of
\* occurrences of q in it.
C7_SearchListsExactlyTheMatches ==
    (Called(last, "search_documents") /\ ~Falsy(Get(last.arguments, "query")))
    => LET q == Lower(last.arguments.query.v)
           results == last.res.data.results
       IN
       /\ last.res.kind = "content"
       /\ {results[i][1] : i \in 1..Len(results)}
              = {n \in DOMAIN docs : Contains(Lower(DocumentText(n)), q)}
       /\ \A i, j \in 1..Len(results) : results[i][1] = results[j][1] => i = j
       /\ \A i \in 1..Len(results) :
              /\ results[i][1] \in DOMAIN docs
              /\ results[i][2] = Count(Lower(DocumentText(results[i][1])), q)

\* the statement starts, once trimmed and uppercased, with one of the four verbs
StartsWithAllowedVerb(query) ==
    \E verb \in {<<"S", "E", "L", "E", "C", "T">>, <<"I", "N", "S", "E", "R", "T">>,
                 <<"U", "P", "D", "A", "T", "E">>, <<"D", "E", "L", "E", "T", "E">>} :
        StartsWith(Upper(Strip(query)), verb)

\* C8: execute_query rejects every statement that does not start, trimmed and
\* uppercased, with SELECT, INSERT, UPDATE or DELETE: nothing is passed to the
\* database, and the database is the same before and after; DROP TABLE users is
\* such a statement and users is still a table after it.
C8_OtherVerbsRejected ==
    [][ ( /\ Called(last', "execute_query")
          /\ ~Lacks(last', "query")
          /\ ~StartsWithAllowedVerb(last'.arguments.query.v) )
        => /\ last'.sql = <<>>
           /\ db' = db
           /\ \/ last'.res.kind = "raise"
              \/ last'.res.kind = "content" /\ last'.res.head[1] = "Error:"
           /\ (last'.arguments.query.v = QDrop) => HasTable(db', TUsers) ]_vars

\* C8 happens: DROP TABLE users was sent, in lower case behind white space, and
\* refused
C8_Witness ==
    /\ Called(last, "execute_query")
    /\ last.arguments = Arg1("query", Str(QDropLower))
    /\ last.res.kind = "content"
    /\ last.res.head[1] = "Error:"
    /\ HasTable(db, TUsers)

\* the invocation runs code that needs more than the limit
RanTooLong(call) ==
    /\ Called(call, "execute_code")
    /\ ~Falsy(Get(call.arguments, "code"))
    /\ Behaviour(call.arguments.code.v).dur > Timeout

\* C9: execute_code of code that does not finish within the limit returns the
\* timeout failure, never an execution result, and no spawned process is running
\* once it has returned.
C9_TimeoutKillsTheProcess ==
    /\ running = {}
    /\ RanTooLong(last)
       => /\ last.res.kind = "content"
          /\ last.res.head = <<"Error:", "Code", "execution", "timed", "out">>

\* C9 happens: code that sleeps 15 units was executed
C9_Witness ==
    /\ RanTooLong(last)
    /\ last.arguments.code.v = ProgSleep15
    /\ last.res.head[1] = "Error:"

\* C10: list_tables does not change the database, and a list_tables on the
\* database it leaves returns the same names in the same order.
C10_ListTablesIdempotent ==
    [][ Called(last', "list_tables")
        => /\ db' = db
           /\ last'.res.kind = "content"
           /\ last'.res.data.tables = db.tables
           /\ last'.res.data.tables = db'.tables ]_vars

\* C10 happens: list_tables listed a database with a table startup did not
\* create, after its rows were changed
C10_Witness ==
    /\ Called(last, "list_tables")
    /\ last.res.data.tables = <<TUsers, TSequence, TProducts, TNotes>>
    /\ Len(db.users) < 3

\* the argument is given as a non-empty str
GivenStr(call, key) ==
    /\ Get(call.arguments, key).t = "str"
    /\ Get(call.arguments, key).v # <<>>

\* read_file is asked for a path nothing is stored under
FileNotFound(call) ==
    /\ Called(call, "read_file")
    /\ GivenStr(call, "file_path")
    /\ ~PathExists(call.arguments.file_path.v)

\* read_file or write_file is asked for a path that is a directory
IoError(call) ==
    /\ Called(call, "read_file") \/ Called(call, "write_file")
    /\ GivenStr(call, "file_path")
    /\ ~Lacks(call, "content") \/ Called(call, "read_file")
    /\ call.arguments.file_path.v \in Dirs

\* read_document, append_to_document or delete_document is asked for a document
\* the directory does not hold
DocumentNotFound(call) ==
    /\ \/ Called(call, "read_document")
       \/ Called(call, "delete_document")
       \/ Called(call, "append_to_document") /\ GivenStr(call, "content")
    /\ GivenStr(call, "name")
    /\ call.arguments.name.v \notin DOMAIN docs

\* describe_table is asked for a table the database does not have
TableAbsent(call) ==
    /\ Called(call, "describe_table")
    /\ GivenStr(call, "table_name")
    /\ ~HasTable(db, call.arguments.table_name.v)

\* get_user is asked for an email no row has
NoSuchUser(call) ==
    /\ Called(call, "get_user")
    /\ GivenStr(call, "email")
    /\ ~EmailExists(db, call.arguments.email.v)

\* SQLite refuses the statement of execute_query, or the parameter of get_user
SqlError(call) ==
    \/ /\ Called(call, "execute_query")
       /\ GivenStr(call, "query")
       /\ StartsWithAllowedVerb(call.arguments.query.v)
       /\ SqliteExecute(db, call.arguments.query.v).err # ""
    \/ /\ Called(call, "get_user")
       /\ Get(call.arguments, "email").t = "list"
       /\ Get(call.arguments, "email").v # <<>>

\* insert_user is given an email some row already has
IntegrityViolation(call) ==
    PassesInsertCheck(call) /\ EmailExists(db, call.arguments.email.v)

\* the call meets one of the domain failures, judged on the state it starts in
DomainFailure(call) ==
    \/ FileNotFound(call) \/ IoError(call) \/ RanTooLong(call)
    \/ DocumentNotFound(call) \/ TableAbsent(call) \/ NoSuchUser(call)
    \/ SqlError(call) \/ IntegrityViolation(call)

\* C11: whenever a tool handler meets a domain failure (file not found, document
\* not found, table absent, no such user, SQL error, integrity violation,
\* timeout, I/O error), the call returns content whose text starts with the
\* marker "Error:".
C11_DomainFailureHasErrorMarker ==
    [][ DomainFailure(last')
        => /\ last'.res.kind = "content"
           /\ last'.res.head # <<>>
           /\ last'.res.head[1] = "Error:" ]_vars

\* C12: every domain failure inside a tool handler, list_tables, get_user and
\* describe_table included, is returned as content and never raised to the
\* caller.
C12_DomainFailureNeverRaised ==
    [][ DomainFailure(last') => last'.res.kind = "content" ]_vars

\* the scheme prefix of the resources of the server of this behaviour
Scheme ==
    CASE server = "code" -> CodeScheme
      [] server = "database" -> <<"d", "b", ":", "/", "/">>
      [] server = "document" -> DocScheme

\* the uris the server lists in the current state
Listed ==
    CASE server = "code" -> code_list_resources
      [] server = "database" -> db_list_resources
      [] server = "document" -> doc_list_resources

IsListed(uri) == \E i \in 1..Len(Listed) : Listed[i] = uri

\* a read_resource of a uri that has the server's scheme and names no item
ReadsAbsentItem(call) ==
    /\ call.op = "read_resource"
    /\ StartsWith(call.arguments.uri.v, Scheme)
    /\ ~IsListed(call.arguments.uri.v)

\* a read_resource of a uri that does not have the server's scheme
ReadsOtherScheme(call) ==
    /\ call.op = "read_resource"
    /\ ~StartsWith(call.arguments.uri.v, Scheme)

\* C13: read_resource fails with "resource not found" for a uri of the server's
\* scheme that names no item and with a distinct "unknown scheme" failure for a
\* uri of another scheme; the caller can tell the two apart, and neither changes
\* domain state.
C13_NotFoundDistinctFromUnknownScheme ==
    [][ /\ (ReadsAbsentItem(last') \/ ReadsOtherScheme(last'))
            => /\ last'.res.kind = "raise"
               /\ UNCHANGED domainVars
        /\ (ReadsAbsentItem(last) /\ ReadsOtherScheme(last'))
            => last'.res.head # last.res.head ]_vars

\* the invocation is a save_code_snippet that reported success
SavedSnippet(call) ==
    /\ Called(call, "save_code_snippet")
    /\ call.res.kind = "content"
    /\ call.res.head = <<"Code", "snippet">>

\* the invocation is a delete_document that reported success
DeletedDocument(call) ==
    /\ Called(call, "delete_document")
    /\ call.res.kind = "content"
    /\ call.res.data.what = "deleted successfully"

\* the uris a list_resources call returned hold the uri
Lists(call, uri) ==
    /\ call.op = "list_resources"
    /\ \E i \in 1..Len(call.res.data) : call.res.data[i] = uri

\* C14: list_resources reflects live state: right after a successful
\* save_code_snippet(n, c) it contains code://n, right after a successful
\* create_document(n, c) it contains doc://n, and right after a successful
\* delete_document(n) it does not contain doc://n.
C14_ListResourcesReflectsLiveState ==
    [][ last'.op = "list_resources"
        => /\ SavedSnippet(last) => Lists(last', CodeScheme \o last.arguments.name.v)
           /\ CreatedDocument(last) => Lists(last', DocScheme \o last.arguments.name.v)
           /\ DeletedDocument(last) => ~Lists(last', DocScheme \o last.arguments.name.v) ]_vars

\* C14 happens for the snippet store: a second snippet was saved and then listed
C14_Witness ==
    /\ server = "code"
    /\ last.op = "list_resources"
    /\ Len(last.res.data) = 2
    /\ Len(code_store) = 2

\* C14 happens for the documents: a listing made after a document was deleted
\* while another one remains
C14_WitnessDocuments ==
    /\ server = "document"
    /\ last.op = "list_resources"
    /\ last.res.data = <<DocScheme \o NameB>>
    /\ document_index = [n \in {NameB} |-> Lower(ReadText(docs[NameB]))]

\* the tool names of the spec's table, in its order
TableOfTools ==
    CASE server = "code" ->
            <<"read_file", "write_file", "execute_code", "save_code_snippet",
              "list_code_snippets">>
      [] server = "database" ->
            <<"execute_query", "list_tables", "describe_table", "insert_user", "get_user">>
      [] server = "document" ->
            <<"create_document", "read_document", "list_documents", "search_documents",
              "append_to_document", "delete_document">>

NamesOf(catalog) == [i \in 1..Len(catalog) |-> catalog[i].name]

\* C16: the tool catalog is static: in every reachable state list_tools returns
\* the tools of the spec's table, in declaration order and with unique names,
\* whatever tool calls were made before.
C16_CatalogIsStatic ==
    /\ NamesOf(Catalog) = TableOfTools
    /\ \A i, j \in 1..Len(Catalog) : Catalog[i].name = Catalog[j].name => i = j
    /\ last.op = "list_tools" => last.res.data = Catalog

\* C16 happens: list_tools was called after tool calls had changed the domain
\* state
C16_Witness ==
    /\ last.op = "list_tools"
    /\ NamesOf(last.res.data) = TableOfTools
    /\ \/ code_store # <<>>
       \/ server = "document" /\ DOMAIN docs = {NameB}
       \/ server = "database" /\ Len(db.users) = 4

\* what the item a uri names holds, for a uri the server lists
ItemOf(uri) ==
    CASE server = "code" -> DictGet(code_store, SubSeq(uri, 8, Len(uri)))
      [] server = "document" -> DocumentText(SubSeq(uri, 7, Len(uri)))
      [] server = "database" -> IF uri = db_list_resources[1]
                                THEN [schema |-> db.tables] ELSE [tables |-> db.tables]

\* C17: the uris one list_resources call returns are pairwise distinct, and
\* read_resource resolves a uri exactly when the name after the scheme prefix
\* is, character for character, the name of a stored item, whose content it
\* returns; a name that differs from a stored one only in case is not resolved.
C17_UrisDistinctAndExact ==
    /\ \A i, j \in 1..Len(Listed) : Listed[i] = Listed[j] => i = j
    /\ last.op = "list_resources"
       => /\ last.res.data = Listed
          /\ \A i, j \in 1..Len(last.res.data) :
                 last.res.data[i] = last.res.data[j] => i = j
    /\ last.op = "read_resource"
       => IF IsListed(last.arguments.uri.v)
          THEN last.res = Value(ItemOf(last.arguments.uri.v))
          ELSE last.res.kind = "raise"

\* C17 happens: code://A was read and refused while the store holds a and not A
C17_Witness ==
    /\ last.op = "read_resource"
    /\ last.arguments.uri.v = CodeScheme \o NameUpperA
    /\ last.res.kind = "raise"
    /\ DictHas(code_store, NameA)
    /\ ~DictHas(code_store, NameUpperA)

\* C17 happens on the other servers: doc://A was refused while a.txt is stored;
\* db://TABLES was refused
C17_WitnessOtherServers ==
    /\ last.op = "read_resource"
    /\ last.res.kind = "raise"
    /\ \/ /\ last.arguments.uri.v = DocScheme \o NameUpperA
          /\ NameA \in DOMAIN docs
       \/ /\ server = "database"
          /\ Lower(last.arguments.uri.v) = db_list_resources[2]

\* the call names a tool of the catalog and gives every required key a value
\* that is not null
GivesAllRequired(call) ==
    /\ call.op = "call_tool"
    /\ call.name \in ToolNames(Catalog)
    /\ ~LacksRequired(call)

\* C18: the argument check rejects a call only for a required key that is
\* absent or null: a call that gives every required key a non-null value, the
\* empty string and the integer 0 included, is not rejected as a contract
\* violation.
C18_OnlyAbsentOrNullRejected ==
    [][ GivesAllRequired(last') => ~ContractViolation(last'.res) ]_vars

\* the step is a search_documents that returned its result
SearchReturned ==
    /\ Called(last', "search_documents")
    /\ last'.res.kind = "content"
    /\ docs' = docs

\* C19: after search_documents(q) has returned, every .txt file in the
\* documents directory has an entry in document_index, whether or not the file
\* matched q.
C19_SearchIndexesEveryFile ==
    [][ SearchReturned => DOMAIN docs' \subseteq DOMAIN document_index' ]_vars

\* the rows without their ids: (name, email, age)
Tuples(rows) == [i \in 1..Len(rows) |-> <<rows[i].name, rows[i].email, rows[i].age>>]

\* the step is the startup of the database server
DbStartup == server = "database" /\ phase = "startup" /\ phase' = "serving"

\* C20: init_database has completed before the first request is handled; after
\* it users and products exist; it inserts the seed rows into a table only when
\* the table has no rows; and running it again on a database whose tables are
\* not empty leaves every row unchanged.
C20_StartupSeedsOnceAndIsIdempotent ==
    [][ /\ (server = "database" /\ last' # NoCall)
            => /\ phase = "serving"
               /\ HasTable(db, TUsers) /\ HasTable(db, TProducts)
        /\ DbStartup
            => /\ HasTable(db', TUsers) /\ HasTable(db', TProducts)
               /\ db.users # <<>> => db'.users = db.users
               /\ db.users = <<>> => Tuples(db'.users) = SeedUsers
               /\ db.products # <<>> => db'.products = db.products
               /\ db.products = <<>> => db'.products = SeedProducts
               /\ init_database(db') = db'
        /\ (Serving("database")' /\ db'.users # <<>> /\ db'.products # <<>>)
            => init_database(db') = db' ]_vars

\* C20 happens: startup ran on a database whose users table had been emptied and
\* seeded it again, leaving products and the other table alone, and requests
\* were handled after it
C20_Witness ==
    /\ Serving("database")
    /\ HasTable(db, TNotes)
    /\ Tuples(db.users) = SeedUsers
    /\ db.users[1].id = 4
    /\ last # NoCall

\* the invocation runs code that ends on its own before the limit
RanInTime(call) ==
    /\ Called(call, "execute_code")
    /\ GivenStr(call, "code")
    /\ Behaviour(call.arguments.code.v).dur < Timeout

\* the report of a finished subprocess: the exit marker if the exit code is not
\* 0, then what it wrote to stdout, then the stderr marker and what it wrote to
\* stderr if that is not empty
ReportOf(b) ==
    (IF b.returncode # 0
     THEN <<"[Error - exit code ", ToString(b.returncode), "]\n">> ELSE <<>>)
    \o b.stdout
    \o (IF b.stderr # <<>> THEN <<"\n[stderr]\n">> \o b.stderr ELSE <<>>)

\* C21: for a subprocess that finishes within the limit execute_code returns one
\* text block holding the subprocess's stdout, followed by its stderr under the
\* stderr marker iff stderr is not empty, and preceded by the exit marker with
\* the exit code iff the exit code is not 0.
C21_ExecutionReport ==
    RanInTime(last)
    => /\ last.res.kind = "content"
       /\ last.res.head = <<"Execution", "result:">>
       /\ last.res.data.output = ReportOf(Behaviour(last.arguments.code.v))

\* the server has entered its request loop and has handled no request yet
EntersLoop == phase = "serving" /\ last = NoCall

\* C22: when the document server enters its request loop document_index has an
\* entry for every .txt file of the directory, equal to the file's text in lower
\* case; when the code server enters its request loop the snippet store is
\* empty, list_resources returns nothing and list_code_snippets reports that
\* nothing is saved.
C22_StartupState ==
    /\ (EntersLoop /\ server = "document")
       => /\ DOMAIN document_index = DOMAIN docs
          /\ \A n \in DOMAIN docs : document_index[n] = Lower(DocumentText(n))
    /\ (EntersLoop /\ server = "code")
       => /\ code_store = <<>>
          /\ code_list_resources = <<>>
          /\ list_code_snippets = Content(<<"No", "code", "snippets", "saved", "yet">>, <<>>)

\* C22 happens: the document server entered its loop on a directory that held a
\* file
C22_Witness ==
    /\ EntersLoop
    /\ server = "document"
    /\ DOMAIN docs = {NameA}
    /\ document_index[NameA] = <<"b", "\n">>

\* C23: with the directory touched by the server only, every name in
\* document_index has a file in the directory and its index value is that file's
\* current text in lower case; no entry remains for a document removed by
\* delete_document.
C23_IndexConsistent ==
    /\ \A n \in DOMAIN document_index :
           /\ n \in DOMAIN docs
           /\ document_index[n] = Lower(DocumentText(n))
    /\ DeletedDocument(last) => last.arguments.name.v \notin DOMAIN document_index

\* an execute_query whose statement starts with an allowed verb
RunsStatement(call) ==
    /\ Called(call, "execute_query")
    /\ GivenStr(call, "query")
    /\ StartsWithAllowedVerb(call.arguments.query.v)

IsSelect(query) == StartsWith(Upper(Strip(query)), <<"S", "E", "L", "E", "C", "T">>)

\* an execute_query that reported the rows an INSERT, UPDATE or DELETE affected
Modified(call) ==
    /\ RunsStatement(call)
    /\ call.res.head = <<"Query", "executed", "successfully.", "Rows", "affected:">>

\* C24: when a statement with an allowed verb fails, execute_query returns the
\* error as content and the database is what it was before the call; when an
\* INSERT, UPDATE or DELETE succeeds its effect is committed before the response:
\* the database after the call is the one the statement produced, and the
\* following execute_query, get_user, list_tables or read_resource sees it.
C24_ExecuteQueryAtomic ==
    [][ /\ RunsStatement(last')
           => LET r == SqliteExecute(db, last'.arguments.query.v) IN
              /\ r.err # ""
                 => /\ last'.res = Content(<<"Error", "executing", "query:">>, [e |-> r.err])
                    /\ db' = db
              /\ (r.err = "" /\ ~IsSelect(last'.arguments.query.v))
                 => /\ Modified(last')
                    /\ db' = r.db
        /\ (Modified(last) /\ last.arguments.query.v = QInsertDana)
           => /\ Called(last', "get_user") /\ Get(last'.arguments, "email") = Str(DanaMail)
                 => /\ last'.res.head = <<"User", "found:">>
                    /\ last'.res.data.user.name = Dana
              /\ (Called(last', "execute_query") /\ Get(last'.arguments, "query") = Str(QSelect))
                 => /\ last'.res.head = <<"Query", "results">>
                    /\ \E i \in 1..Len(last'.res.data.rows) :
                           last'.res.data.rows[i].email = DanaMail
        /\ (Modified(last) /\ last.arguments.query.v = QDelete)
           => /\ (Called(last', "execute_query") /\ Get(last'.arguments, "query") = Str(QSelect))
                 => last'.res.head[3] = "successfully,"
              /\ (Called(last', "list_tables") \/ last'.op = "read_resource")
                 => (last'.res.kind # "raise" => HasTable(db', TUsers)) ]_vars

\* C24 happens: an INSERT through execute_query was committed, and a later
\* INSERT that broke the UNIQUE constraint was refused and left the rows alone
C24_Witness ==
    /\ RunsStatement(last)
    /\ last.arguments.query.v = QInsertAlice
    /\ last.res.head = <<"Error", "executing", "query:">>
    /\ Len(db.users) = 4
    /\ db.users[4].email = DanaMail

\* an append_to_document that passed the argument check
Appends(call) ==
    /\ Called(call, "append_to_document")
    /\ GivenStr(call, "name")
    /\ GivenStr(call, "content")

\* the names a search_documents call returned
Found(call) == {call.res.data.results[i][1] : i \in 1..Len(call.res.data.results)}

\* C25: append_to_document(n, c) on an existing document makes its content the
\* previous content, a newline, then c, and a following read_document(n) and
\* search_documents see that content; on a document that does not exist it
\* answers not found and creates neither a file nor an index entry.
C25_AppendExtendsContent ==
    [][ /\ Appends(last')
           => LET n == last'.arguments.name.v
                  c == last'.arguments.content.v
              IN IF n \in Glob
                 THEN /\ last'.res.head = <<"Appended">>
                      /\ n \in DOMAIN docs'
                      /\ ReadText(docs'[n]) = DocumentText(n) \o <<"\n">> \o c
                 ELSE /\ last'.res.data.what = "not found. Use create_document first."
                      /\ docs' = docs
                      /\ document_index' = document_index
        /\ (Appends(last) /\ last.res.head = <<"Appended">>)
           => LET n == last.arguments.name.v IN
              /\ (Called(last', "read_document") /\ Get(last'.arguments, "name") = Str(n))
                 => /\ last'.res.data.what = "content"
                    /\ last'.res.data.content = DocumentText(n)
              /\ (Called(last', "search_documents") /\ GivenStr(last', "query"))
                 => (n \in Found(last')
                     <=> Contains(Lower(DocumentText(n)), Lower(last'.arguments.query.v))) ]_vars

\* a call or a read that asks for document n
AsksFor(call, n) ==
    \/ /\ call.op = "call_tool"
       /\ call.name \in {"read_document", "delete_document"}
       /\ Get(call.arguments, "name") = Str(n)
    \/ /\ call.op = "read_resource"
       /\ call.arguments.uri.v = DocScheme \o n

\* the answer says that the document does not exist
SaysNotFound(call) ==
    IF call.op = "read_resource"
    THEN call.res.kind = "raise" /\ call.res.head = <<"Document", "not", "found:">>
    ELSE call.res.kind = "content" /\ call.res.data.what = "not found"

\* the answer of a listing or of a search names document n
Names(call, n) ==
    \/ Lists(call, DocScheme \o n)
    \/ /\ Called(call, "list_documents")
       /\ call.res.head = <<"Available", "documents">>
       /\ \E i \in 1..Len(call.res.data.names) : call.res.data.names[i] = n
    \/ /\ Called(call, "search_documents")
       /\ call.res.kind = "content"
       /\ n \in Found(call)

\* C26: a successful delete_document(n) removes the file of n and leaves the
\* file and the index entry of every other document as they were; a document
\* without a file gets one again only through a successful create_document of
\* it; and as long as n has no file, read_document(n) and read_resource(doc://n)
\* report not found, list_documents, list_resources and search_documents do not
\* name n, and delete_document(n) changes nothing. A name that denotes the file
\* of n by another path counts as n.
C26_DeletedStaysGone ==
    [][ /\ DeletedDocument(last')
           => LET n == doc_path(last'.arguments.name.v) IN
              /\ n \notin DOMAIN docs'
              /\ \A m \in DOMAIN docs \ {n} : m \in DOMAIN docs' /\ docs'[m] = docs[m]
              /\ \A m \in DOMAIN document_index :
                    doc_path(m) # n
                    => m \in DOMAIN document_index' /\ document_index'[m] = document_index[m]
              /\ DOMAIN docs' \subseteq DOMAIN docs
              /\ DOMAIN document_index' \subseteq DOMAIN document_index
        /\ server = "document"
           => \A n \in DocNames \cup {NameUpperA} :
                 n \notin Glob
                 => /\ n \in DOMAIN docs'
                       => CreatedDocument(last') /\ doc_path(last'.arguments.name.v) = n
                    /\ AsksFor(last', n) => SaysNotFound(last')
                    /\ ~Names(last', n)
                    /\ Called(last', "delete_document") /\ AsksFor(last', n)
                       => docs' = docs /\ document_index' = document_index ]_vars

\* C26 happens: document a was deleted while document b stays stored and indexed
C26_Witness ==
    /\ DeletedDocument(last)
    /\ last.arguments.name.v = NameA
    /\ NameA \notin Glob
    /\ NameB \in Glob
    /\ NameB \in DOMAIN document_index

\* a read_resource of code://n
ReadsSnippet(call, n) ==
    /\ call.op = "read_resource"
    /\ call.arguments.uri.v = CodeScheme \o n

\* C27: the snippet store starts empty; a successful save_code_snippet(n, c)
\* makes c the code stored under n and leaves the other snippets alone; nothing
\* else changes or removes a stored snippet; read_resource(code://n) returns
\* exactly the code stored under n, which is therefore the code of the latest
\* successful save of n, and fails for a name that was never saved; and
\* list_code_snippets names exactly the saved names.
C27_SnippetLastWriteWins ==
    [][ server = "code" =>
        /\ phase = "startup" => code_store = <<>>
        /\ SavedSnippet(last')
           => /\ DictHas(code_store', last'.arguments.name.v)
              /\ DictGet(code_store', last'.arguments.name.v) = last'.arguments.code.v
        /\ \A n \in SnippetNames :
              /\ (DictHas(code_store, n) /\ ~(SavedSnippet(last') /\ last'.arguments.name.v = n))
                 => DictHas(code_store', n) /\ DictGet(code_store', n) = DictGet(code_store, n)
              /\ (~DictHas(code_store, n) /\ DictHas(code_store', n))
                 => SavedSnippet(last') /\ last'.arguments.name.v = n
              /\ DictHas(code_store, n) => DictHas(code_store', n)
              /\ ReadsSnippet(last', n)
                 => last'.res = IF DictHas(code_store, n)
                                THEN Value(DictGet(code_store, n))
                                ELSE Raise(<<"Resource", "not", "found:">>,
                                           [uri |-> CodeScheme \o n])
              /\ (SavedSnippet(last) /\ last.arguments.name.v = n /\ ReadsSnippet(last', n))
                 => last'.res = Value(last.arguments.code.v)
              /\ Called(last', "list_code_snippets")
                 => (DictHas(code_store, n)
                     <=> /\ last'.res.head = <<"Saved", "code", "snippets:">>
                         /\ \E i \in 1..Len(last'.res.data.names) :
                               last'.res.data.names[i] = n) ]_vars

\* C27 happens: snippet a was saved, then snippet A, then a again with the code
\* that is now stored under a
C27_Witness ==
    /\ SavedSnippet(last)
    /\ last.arguments.name.v = NameA
    /\ Len(code_store) = 2
    /\ code_store[1] = [k |-> NameA, v |-> TextCr]
    /\ code_store[2].k = NameUpperA

\* read_resource of the running server: the outcome for a uri
Resolves(uri) ==
    CASE server = "code" -> code_read_resource(uri)
      [] server = "database" -> db_read_resource(uri).res
      [] server = "document" -> doc_read_resource(uri)

\* the uris a client may ask the running server for
Uris ==
    CASE server = "code" -> CodeUris
      [] server = "database" -> DbUris
      [] server = "document" -> DocUris

\* C28: in every state in which a server answers requests every uri that list_resources
\* returns is resolved by read_resource, and on the code and document servers
\* every uri that read_resource resolves is one that list_resources returns.
C28_ListingAndResolutionAgree ==
    phase = "serving" =>
    /\ \A i \in 1..Len(Listed) : Resolves(Listed[i]).kind = "value"
    /\ server \in {"code", "document"}
       => \A uri \in Uris : Resolves(uri).kind = "value" => IsListed(uri)
    /\ (last.op = "read_resource" /\ server \in {"code", "document"})
       => (last.res.kind = "value" => IsListed(last.arguments.uri.v))

\* the outcome is the failure of call_tool's final else branch
UnknownTool(res) == res.kind = "raise" /\ res.head = <<"Unknown", "tool:">>

\* C29: on each server call_tool handles exactly the names list_tools returns:
\* a call with a listed name never ends in the unknown-tool failure, whatever
\* its arguments, and a call with any other name always does; the same holds
\* against the list a list_tools call has just returned.
C29_CatalogAndDispatchAgree ==
    [][ last'.op = "call_tool"
        => /\ UnknownTool(last'.res) <=> last'.name \notin ToolNames(Catalog)
           /\ last.op = "list_tools"
              => (UnknownTool(last'.res) <=> last'.name \notin ToolNames(last.res.data)) ]_vars

\* C29 happens: the code server refused READ_FILE, which differs from a listed
\* name only in case, after it had handled a save_code_snippet
C29_Witness ==
    /\ server = "code"
    /\ Called(last, "READ_FILE")
    /\ UnknownTool(last.res)
    /\ "read_file" \in ToolNames(Catalog)
    /\ code_store # <<>>

\* the request opened a connection: get_connection() was reached
Connected(call) ==
    \/ call.op = "read_resource"
    \/ Called(call, "list_tables")
    \/ /\ call.op = "call_tool"
       /\ call.name \in {"execute_query", "describe_table", "insert_user", "get_user"}
       /\ ~(call.res.kind = "raise" /\ call.res.head[Len(call.res.head)] = "required")

\* C30: every connection that a tool call or a read_resource of the database
\* server opens is closed when the call has returned or raised, whether it
\* succeeded, reported an error in-band or raised: no connection is open
\* between two requests.
C30_ConnectionsClosed ==
    server = "database" => conns = 0

\* C30 happens: get_user opened a connection, its statement raised, and the
\* connection is closed
C30_Witness ==
    /\ server = "database"
    /\ Called(last, "get_user")
    /\ Connected(last)
    /\ last.res.kind = "raise"
    /\ last.sql = <<SelectUserStatement>>
    /\ conns = 0

====
